---- MODULE Spec2Model ----
(***************************************************************************)
(* A model of one shard of the concurrent LRU cache of                     *)
(* src/structures/LRUCache/LRUCache.cpp: the linked flat map               *)
(* (Lv3_LinkedFlatMap), the epoch manager (EpochManager), the per-reader   *)
(* trace ring (SPSC_RingBufferUltraFast) and the shard engine              *)
(* (Lv5_bdFlatLRU).                                                        *)
(*                                                                         *)
(* The specifications share the state:                                     *)
(*   Spec    one thread; every get and put runs to completion in one step. *)
(*   SpecLive one thread under a fair scheduler.                           *)
(*   SpecLRU the same, with the order of the accesses recorded.            *)
(*   SpecSized the same, with trace rings of several capacities.           *)
(*   SpecMpsc the threads of one MPSC_TraceBuffer.                         *)
(*   SpecRef the same, with a StrictLRU that is given the same operations. *)
(*   SpecC   one reader thread and one writer thread, interleaved at the   *)
(*           level of the atomic loads and stores of the code.             *)
(*   SpecW   NumWriters writer threads, interleaved at the same level.     *)
(*   SpecG   as SpecC, on a shard that starts empty.                       *)
(*   SpecT   a thread that puts and gets, and one writer thread,           *)
(*           interleaved at the same level.                                *)
(*   SpecS   the sharded cache (Lv3_ShardedCache): threads whose gets and  *)
(*           puts are forwarded to the shard of the key.                   *)
(*   SpecRing one trace ring with its producer and its consumer.           *)
(*   SpecR   the reader and one writer on a shard whose retirement list    *)
(*           is one entry short of the cleanup threshold.                  *)
(*   SpecA   a writer, and a thread whose puts fail in the allocator.      *)
(*   SpecX   two reader threads that share a thread id, and one writer.    *)
(*   SpecEpoch the epoch manager alone, with EpochThreads reader slots.    *)
(*   SpecPool, SpecPoolFair  the ring of ringbuffer/ringbuffer.cpp with    *)
(*           the producer and the consumer of run_test (tests.cpp).        *)
(***************************************************************************)
EXTENDS Integers, Sequences, FiniteSets, TLC

\* ------------------------------------------------------------------ bounds
\* Capacity is a template parameter and must be a power of two.
CapacityLog2 == 1
\* Capacity of a trace ring, a power of two.  The shard instantiates the ring
\* with Capacity / (4 * MaxThreads); the model keeps it as a parameter of its
\* own so that a small table still has a ring that can hold a trace.
RingCapacityLog2 == 1
\* Keys are 0 .. NumKeys-1; values are 1 .. NumValues.
NumKeys == 5
NumValues == 2
\* Slow-path puts stop once the global epoch has reached MaxEpoch (Spec).
MaxEpoch == 5
\* The same, for the interleaved specifications SpecC (which starts at
\* epoch Capacity + 1) and SpecW.
MaxEpochC == 5
MaxEpochW == 4
\* The same, for SpecT (which starts at epoch Capacity + 1).
MaxEpochT == 5
\* Writer threads of SpecW.
NumWriters == 2
\* The sharded cache of SpecS: ShardsCount is a template parameter and a
\* power of two; NumThreads threads use the cache; slow-path puts on a shard
\* stop once its global epoch has reached MaxEpochS (SpecS starts at epoch
\* Capacity + 1).
ShardsCountLog2 == 1
NumThreads == 2
MaxEpochS == 4
\* SpecEpoch: an EpochManager with EpochThreads slots; bump_epoch stops at
\* MaxEpochE.
EpochThreads == 3
MaxEpochE == 4
\* SpecSized: the rings of shards of 4 * MaxThreads * 2^j keys, j from 0 to
\* MaxRingLog2.
MaxRingLog2 == 1
\* SpecMpsc: an MPSC_TraceBuffer of capacity 2^MpscCapacityLog2 with
\* NumProducers producer threads that push MpscItems values each.
MpscCapacityLog2 == 1
NumProducers == 2
MpscItems == 2
\* SpecR lets the writer make PutsR slow-path puts.
PutsR == 2
\* run_test of ringbuffer/tests.cpp: the capacity of its ring, a power of
\* two, and the number of items the producer pushes and the consumer pops.
PoolCapacityLog2 == 2
Iterations == 5

\* ---------------------------------------------------------- configuration
Capacity == 2 ^ CapacityLog2
RingCapacity == 2 ^ RingCapacityLog2
MaxThreads == 1
TableSize == Capacity * 2
ShardsCount == 2 ^ ShardsCountLog2
PoolCapacity == 2 ^ PoolCapacityLog2
NullIdx == 65535
NullPtr == 0
RetiredThreshold == 64

Keys == 0 .. (NumKeys - 1)
Values == 1 .. NumValues
Slots == 0 .. (TableSize - 1)
Tids == 0 .. (MaxThreads - 1)

Empty == "Empty"
Occupied == "Occupied"
Deleted == "Deleted"

VARIABLES
    meta,           \* _meta_table: slot -> [gen, state, key, next, prev]
    data,           \* _data_table: slot -> value handle (object id or NullPtr)
    head, tail,     \* _head, _tail
    size,           \* _size
    heap,           \* the value objects allocated so far: [k, v, rc]
    retired,        \* _retired_list: sequence of [ptr, epoch]
    global_epoch,   \* _global_epoch
    active_epoch,   \* _thread_states[tid].active_epoch
    rings,          \* _update_buffers[tid]
    dirty_mask,     \* _dirty_mask, as the set of the bits that are set
    spin_lock,      \* _spin_lock
    rd,             \* the reader thread: its position and locals
    wr,             \* the writer threads: their positions and locals
    shadow,         \* history: key -> [v: value of its last put, 0 when absent;
                    \*                  was_evicted: it has been evicted before]
    recency,        \* history: the present keys, most recently accessed first
    last_evict,     \* history: the last eviction, [victim, lru]
    uaf,            \* history: a reference count was touched after destruction
    cache,          \* the sharded cache: _shards, each [st: the shard, lock:
                    \* its _spin_lock], the counter of get_thread_id, and
                    \* the threads that use it
    pool,           \* the ring of run_test (ringbuffer/tests.cpp) with its
                    \* producer and consumer threads
    strict,         \* a StrictLRU: _freq_list, most recently used first
    mpsc            \* an MPSC_TraceBuffer with its producer threads and its
                    \* consumer thread

mapvars == <<meta, data, head, tail, size>>
engvars == <<heap, retired, global_epoch, active_epoch, rings, dirty_mask, spin_lock>>
histvars == <<shadow, recency, last_evict, uaf, cache, pool, strict, mpsc>>
shardvars == <<meta, data, head, tail, size, heap, retired, global_epoch,
               active_epoch, rings, dirty_mask, spin_lock, rd, wr, shadow,
               recency, last_evict, uaf, pool, strict, mpsc>>
vars == <<shardvars, cache>>

\* The shard's state as one record, so that the operations compose.
St ==
    [meta |-> meta, data |-> data, head |-> head, tail |-> tail, size |-> size,
     heap |-> heap, retired |-> retired, global_epoch |-> global_epoch,
     active_epoch |-> active_epoch, rings |-> rings, dirty_mask |-> dirty_mask,
     uaf |-> uaf]

Store(S) ==
    /\ meta' = S.meta
    /\ data' = S.data
    /\ head' = S.head
    /\ tail' = S.tail
    /\ size' = S.size
    /\ heap' = S.heap
    /\ retired' = S.retired
    /\ global_epoch' = S.global_epoch
    /\ active_epoch' = S.active_epoch
    /\ rings' = S.rings
    /\ dirty_mask' = S.dirty_mask
    /\ uaf' = S.uaf

\* ------------------------------------------------------ shared ownership
\* std::shared_ptr: copying a handle increments the use count of its object,
\* destroying a handle decrements it, and the object dies when it reaches 0.
\* Touching the count of a dead object is a use after free.
rc_inc(S, p) ==
    IF p = NullPtr THEN S
    ELSE IF S.heap[p].rc = 0 THEN [S EXCEPT !.uaf = TRUE]
    ELSE [S EXCEPT !.heap[p].rc = @ + 1]

\* A destroyed object leaves [k |-> 0, v |-> 0, rc |-> 0] behind.
rc_dec(S, p) ==
    IF p = NullPtr THEN S
    ELSE IF S.heap[p].rc = 0 THEN [S EXCEPT !.uaf = TRUE]
    ELSE IF S.heap[p].rc = 1 THEN [S EXCEPT !.heap[p] = [k |-> 0, v |-> 0, rc |-> 0]]
    ELSE [S EXCEPT !.heap[p].rc = @ - 1]

\* std::allocate_shared: a new object with one owner.  Object ids stand for
\* addresses: the allocator hands out the lowest id that is free, and an id
\* is free once its object is dead and no thread still holds its address.
is_free(S, p) == S.heap[p].rc = 0 /\ p \notin {rd.ptr, rd.ctrl}

fresh_id(S) ==
    IF \E p \in 1 .. Len(S.heap) : is_free(S, p)
    THEN CHOOSE p \in 1 .. Len(S.heap) :
            is_free(S, p) /\ \A q \in 1 .. (p - 1) : ~is_free(S, q)
    ELSE Len(S.heap) + 1

allocate_shared(S, key, value) ==
    LET p == fresh_id(S)
        obj == [k |-> key, v |-> value, rc |-> 1]
    IN IF p > Len(S.heap) THEN [S EXCEPT !.heap = Append(@, obj)]
       ELSE [S EXCEPT !.heap[p] = obj]

\* ------------------------------------------------------ Lv3_LinkedFlatMap
\* std::hash of an integer key is the identity; x & Mask = x % TableSize
\* because TableSize is a power of two.
calculate_hash_idx(key) == key % TableSize

next_slot(idx) == (idx + 1) % TableSize

detach(S, idx) ==
    LET n == S.meta[idx].next
        p == S.meta[idx].prev
        S1 == IF n # NullIdx THEN [S EXCEPT !.meta[n].prev = p]
              ELSE [S EXCEPT !.tail = p]
        S2 == IF p # NullIdx THEN [S1 EXCEPT !.meta[p].next = n]
              ELSE [S1 EXCEPT !.head = n]
    IN [S2 EXCEPT !.meta[idx].next = NullIdx, !.meta[idx].prev = NullIdx]

push_front(S, idx) ==
    LET old_head == S.head
        S1 == [S EXCEPT !.meta[idx].next = old_head, !.meta[idx].prev = NullIdx]
        S2 == IF old_head # NullIdx THEN [S1 EXCEPT !.meta[old_head].prev = idx]
              ELSE S1
        S3 == [S2 EXCEPT !.head = idx]
    IN IF S3.tail = NullIdx THEN [S3 EXCEPT !.tail = idx] ELSE S3

move_to_front(S, idx) ==
    IF idx = S.head \/ idx = NullIdx THEN S
    ELSE push_front(detach(S, idx), idx)

\* Variant: is_valid_gen looks at the state only.
is_valid_state(S, idx, gen) == S.meta[idx].state = Occupied

is_valid_gen(S, idx, gen) ==
    S.meta[idx].state = Occupied /\ S.meta[idx].gen = gen

\* The writer's probe.  The source loops `while (true)`; the table does not
\* change during the probe (the caller holds the lock), so a probe that has
\* visited TableSize slots without returning never returns: loops = TRUE.
RECURSIVE lookup_probe(_, _, _, _, _)
lookup_probe(S, key, idx, first_del, steps) ==
    IF steps = TableSize
    THEN [ptr |-> NullPtr, idx |-> NullIdx, gen |-> 0, loops |-> TRUE]
    ELSE LET m == S.meta[idx] IN
         IF m.state = Empty
         THEN [ptr |-> NullPtr,
               idx |-> IF first_del # NullIdx THEN first_del ELSE idx,
               gen |-> 0, loops |-> FALSE]
         ELSE IF m.state = Occupied /\ m.key = key
         THEN [ptr |-> S.data[idx], idx |-> idx, gen |-> m.gen, loops |-> FALSE]
         ELSE lookup_probe(S, key, next_slot(idx),
                           IF m.state = Deleted /\ first_del = NullIdx
                           THEN idx ELSE first_del,
                           steps + 1)

lookup(S, key) == lookup_probe(S, key, calculate_hash_idx(key), NullIdx, 0)

RECURSIVE assign_probe(_, _, _, _)
assign_probe(S, idx, first_deleted, steps) ==
    IF steps = TableSize
    THEN [idx |-> NullIdx, loops |-> TRUE]
    ELSE LET state == S.meta[idx].state IN
         IF state = Empty
         THEN [idx |-> IF first_deleted # NullIdx THEN first_deleted ELSE idx,
               loops |-> FALSE]
         ELSE assign_probe(S, next_slot(idx),
                           IF state = Deleted /\ first_deleted = NullIdx
                           THEN idx ELSE first_deleted,
                           steps + 1)

assign_slot(S, key) == assign_probe(S, calculate_hash_idx(key), NullIdx, 0)

\* Variant: the fetch_add on gen is lost.
gen_add_lost(S, idx) == S

\* The stores of the sequence-lock protocol, one atomic store each.
gen_add(S, idx) == [S EXCEPT !.meta[idx].gen = @ + 1]
gen_store(S, idx, g) == [S EXCEPT !.meta[idx].gen = g]
key_store(S, idx, key) == [S EXCEPT !.meta[idx].key = key]
state_store(S, idx, st) == [S EXCEPT !.meta[idx].state = st]
value_store(S, idx, p) == [S EXCEPT !.data[idx] = p]

\* update_slot: gen odd, move the old handle out, move the new one in,
\* state, gen even.  The old handle is S.data[idx] before the call.
update_slot(S, idx, new_val) ==
    LET current_gen == S.meta[idx].gen
        S1 == gen_store(S, idx, current_gen + 1)
        S2 == value_store(S1, idx, NullPtr)
        S3 == value_store(S2, idx, new_val)
        S4 == state_store(S3, idx, Occupied)
    IN gen_store(S4, idx, current_gen + 2)

emplace_at(S, idx, key, new_ptr) ==
    LET S1 == gen_add(S, idx)
        S2 == key_store(S1, idx, key)
        S3 == value_store(S2, idx, new_ptr)
        S4 == state_store(S3, idx, Occupied)
        S5 == gen_add(S4, idx)
    IN [S5 EXCEPT !.size = @ + 1]

\* erase_index: `value = nullptr` destroys the slot's handle.
erase_index(S, idx) ==
    IF idx = NullIdx \/ S.meta[idx].state # Occupied THEN S
    ELSE LET S0 == detach(S, idx)
             S1 == gen_add(S0, idx)
             S2 == value_store(rc_dec(S1, S1.data[idx]), idx, NullPtr)
             S3 == state_store(S2, idx, Deleted)
             S4 == gen_add(S3, idx)
         IN [S4 EXCEPT !.size = @ - 1]

\* ------------------------------------------------ SPSC_RingBufferUltraFast
increment(R, i) == (i + 1) % Cardinality(DOMAIN R.buffer)

\* Variant: push trusts its cached copy of head.
push_trusts_cache(R, value) ==
    IF increment(R, R.tail) = R.head_cache
    THEN [ring |-> R, ok |-> FALSE]
    ELSE [ring |-> [R EXCEPT !.buffer[R.tail] = value, !.tail = increment(R, R.tail)],
          ok |-> TRUE]

\* Variant: push writes without looking for room.
push_unchecked(R, value) ==
    [ring |-> [R EXCEPT !.buffer[R.tail] = value, !.tail = increment(R, R.tail)],
     ok |-> TRUE]

\* push: [ring, ok].  The producer re-reads head only when its cached copy
\* predicts a full ring.
push(R, value) ==
    LET curr_t == R.tail
        hc == IF increment(R, curr_t) = R.head_cache THEN R.head ELSE R.head_cache
        R1 == [R EXCEPT !.head_cache = hc]
    IN IF increment(R, curr_t) = hc
       THEN [ring |-> R1, ok |-> FALSE]
       ELSE [ring |-> [R1 EXCEPT !.buffer[curr_t] = value,
                                 !.tail = increment(R, curr_t)],
             ok |-> TRUE]

\* pop: [ring, ok, value].
pop(R) ==
    LET curr_h == R.head
        tc == IF curr_h = R.tail_cache THEN R.tail ELSE R.tail_cache
        R1 == [R EXCEPT !.tail_cache = tc]
    IN IF curr_h = tc
       THEN [ring |-> R1, ok |-> FALSE, value |-> [idx |-> 0, gen |-> 0]]
       ELSE [ring |-> [R1 EXCEPT !.head = increment(R, curr_h)],
             ok |-> TRUE, value |-> R.buffer[curr_h]]

\* ------------------------------------------------------------ EpochManager
current_epoch(S) == S.global_epoch

enter_epoch(S, tid) == [S EXCEPT !.active_epoch[tid] = S.global_epoch]

leave_epoch(S, tid) == [S EXCEPT !.active_epoch[tid] = 0]

bump_epoch(S) == [S EXCEPT !.global_epoch = @ + 1]

\* Variant: the scan takes the stamp of an empty slot as well.
RECURSIVE min_scan_any(_, _, _)
min_scan_any(S, t, min_e) ==
    IF t \notin DOMAIN S.active_epoch THEN min_e
    ELSE LET e == S.active_epoch[t] IN
         min_scan_any(S, t + 1, IF e < min_e THEN e ELSE min_e)

\* The loop of get_min_active over _thread_states, from slot t on.
RECURSIVE min_scan(_, _, _)
min_scan(S, t, min_e) ==
    IF t \notin DOMAIN S.active_epoch THEN min_e
    ELSE LET e == S.active_epoch[t] IN
         min_scan(S, t + 1, IF e # 0 /\ e < min_e THEN e ELSE min_e)

get_min_active(S) == min_scan(S, 0, S.global_epoch)

\* ----------------------------------------------------------- Lv5_bdFlatLRU
\* Variant: an entry as old as the oldest reader is erased too.
retire_drop_at_min(obj, min_e) == obj.epoch <= min_e

\* std::erase_if over _retired_list: an erased entry destroys its handle.
retire_drop(obj, min_e) == obj.epoch < min_e

RECURSIVE erase_retired(_, _, _)
erase_retired(S, i, min_e) ==
    IF i > Len(S.retired) THEN S
    ELSE IF retire_drop(S.retired[i], min_e)
    THEN LET p == S.retired[i].ptr
             S1 == [S EXCEPT !.retired = SubSeq(@, 1, i - 1) \o SubSeq(@, i + 1, Len(@))]
         IN erase_retired(rc_dec(S1, p), i, min_e)
    ELSE erase_retired(S, i + 1, min_e)

cleanup_retired(S) == erase_retired(S, 1, get_min_active(S))

RECURSIVE process_buffer(_, _)
process_buffer(S, buf_idx) ==
    LET r == pop(S.rings[buf_idx])
        S1 == [S EXCEPT !.rings[buf_idx] = r.ring]
    IN IF ~r.ok THEN S1
       ELSE process_buffer(
                IF is_valid_gen(S1, r.value.idx, r.value.gen)
                THEN move_to_front(S1, r.value.idx) ELSE S1,
                buf_idx)

\* for_each_bit: the set bits, lowest first.
RECURSIVE for_each_bit(_, _)
for_each_bit(S, mask) ==
    IF mask = {} THEN S
    ELSE LET b == CHOOSE x \in mask : \A y \in mask : x <= y
         IN for_each_bit(process_buffer(S, b), mask \ {b})

\* Variant: apply_updates loads the dirty mask and leaves it as it is.
apply_updates_mask_kept(S) ==
    LET S1 == for_each_bit(S, S.dirty_mask)
    IN IF S1.retired # <<>> THEN cleanup_retired(S1) ELSE S1

apply_updates(S) ==
    LET mask == S.dirty_mask
        S1 == for_each_bit([S EXCEPT !.dirty_mask = {}], mask)
    IN IF S1.retired # <<>> THEN cleanup_retired(S1) ELSE S1

\* Variant: the displaced handle is destroyed at once, not retired.
retire_at_once(S, p) == rc_dec(S, p)

\* _retired_list.push_back of a handle with the current epoch.
retire(S, p) == [S EXCEPT !.retired = Append(@, [ptr |-> p, epoch |-> current_epoch(S)])]

\* Variant: the shard evicts only once it holds more than Capacity keys.
must_evict_late(S) == S.size > Capacity

\* Variant: commit_put evicts whenever the shard holds a key.
must_evict_always(S) == S.size >= 1

\* commit_put evicts when the shard is full.
must_evict(S) == S.size >= Capacity

\* commit_put: [st, loops, victim]; victim is the evicted key (-1: none).
\* final_res.ptr is a second handle to the old value for the duration of the
\* call; the slot or the retirement list holds the value throughout, so the
\* model leaves that handle out.
commit_put(S, key, new_ptr) ==
    LET final_res == lookup(S, key) IN
    IF final_res.loops THEN [st |-> S, loops |-> TRUE, victim |-> -1]
    ELSE IF final_res.ptr # NullPtr
    THEN LET old == S.data[final_res.idx]
             S1 == update_slot(S, final_res.idx, new_ptr)
             S2 == retire(S1, old)
         IN [st |-> move_to_front(S2, final_res.idx), loops |-> FALSE, victim |-> -1]
    ELSE IF must_evict(S)
    THEN LET tail_idx == S.tail
             evicted_ptr == S.data[tail_idx]
             S1 == retire(rc_inc(S, evicted_ptr), evicted_ptr)
             S2 == erase_index(S1, tail_idx)
             a == assign_slot(S2, key)
         IN IF a.loops THEN [st |-> S2, loops |-> TRUE, victim |-> S.meta[tail_idx].key]
            ELSE [st |-> move_to_front(emplace_at(S2, a.idx, key, new_ptr), a.idx),
                  loops |-> FALSE, victim |-> S.meta[tail_idx].key]
    ELSE [st |-> move_to_front(emplace_at(S, final_res.idx, key, new_ptr), final_res.idx),
          loops |-> FALSE, victim |-> -1]

\* Variant: mark_access records nothing.
mark_access_nothing(S, tid, idx, gen) == [S EXCEPT !.dirty_mask = @ \ {tid}]

\* mark_access: push the trace; on success test the bit, then set it.
mark_access(S, tid, idx, gen) ==
    LET r == push(S.rings[tid], [idx |-> idx, gen |-> gen])
        S1 == [S EXCEPT !.rings[tid] = r.ring]
    IN IF r.ok /\ tid \notin S1.dirty_mask
       THEN [S1 EXCEPT !.dirty_mask = @ \cup {tid}]
       ELSE S1

\* Variant: the reader's probe treats a tombstone as the end of the chain.
RECURSIVE lockless_probe_ends_at_tombstone(_, _, _, _)
lockless_probe_ends_at_tombstone(S, key, idx, i) ==
    IF i = TableSize THEN [ptr |-> NullPtr, idx |-> NullIdx, gen |-> 0]
    ELSE LET m == S.meta[idx] IN
         IF m.gen % 2 = 1 THEN [ptr |-> NullPtr, idx |-> NullIdx, gen |-> 0]
         ELSE IF m.state # Occupied THEN [ptr |-> NullPtr, idx |-> NullIdx, gen |-> 0]
         ELSE IF m.key = key
         THEN [ptr |-> S.data[idx], idx |-> idx, gen |-> m.gen]
         ELSE lockless_probe_ends_at_tombstone(S, key, next_slot(idx), i + 1)

\* get_lockless with no writer inside a mutation: [ptr, idx, gen].  A slot
\* with an odd gen makes the reader wait for the gen to change.
RECURSIVE lockless_probe(_, _, _, _)
lockless_probe(S, key, idx, i) ==
    IF i = TableSize THEN [ptr |-> NullPtr, idx |-> NullIdx, gen |-> 0]
    ELSE LET m == S.meta[idx] IN
         IF m.gen % 2 = 1 THEN [ptr |-> NullPtr, idx |-> NullIdx, gen |-> 0]
         ELSE IF m.state = Empty THEN [ptr |-> NullPtr, idx |-> NullIdx, gen |-> 0]
         ELSE IF m.state = Occupied /\ m.key = key
         THEN [ptr |-> S.data[idx], idx |-> idx, gen |-> m.gen]
         ELSE lockless_probe(S, key, next_slot(idx), i + 1)

get_lockless(S, key) == lockless_probe(S, key, calculate_hash_idx(key), 0)

\* The slow path of put under the second lock section:
\* bump, drain, commit, clean up.  [st, loops, victim].
put_commit_section(S, key, new_ptr) ==
    LET S1 == bump_epoch(S)
        S2 == IF S1.dirty_mask # {} THEN apply_updates(S1) ELSE S1
        c == commit_put(S2, key, new_ptr)
    IN IF c.loops THEN c
       ELSE [c EXCEPT !.st = IF Len(c.st.retired) >= RetiredThreshold
                             THEN cleanup_retired(c.st) ELSE c.st]

\* Variant: put never takes the quiet path.
is_quiet_never(S, res, value) == res.ptr # NullPtr /\ S.heap[res.ptr].v = 0

\* The quiet-update test of put: the key is present with an equal value.
is_quiet(S, res, value) == res.ptr # NullPtr /\ S.heap[res.ptr].v = value

\* put(key, value) of a thread that runs alone, from call to return.
\* [st, loops]: the shard afterwards; loops when a probe never returns.
put(S, key, value) ==
    LET res == lookup(S, key)
        c == put_commit_section(allocate_shared(S, key, value), key, fresh_id(S))
    IN IF res.loops THEN [st |-> S, loops |-> TRUE]
       ELSE IF is_quiet(S, res, value)
       THEN [st |-> move_to_front(S, res.idx), loops |-> FALSE]
       ELSE [st |-> c.st, loops |-> c.loops]

\* get(key) of thread tid when no put is inside a lock section, from call to
\* return, the caller dropping the handle at once.  [st, v]: the shard
\* afterwards and the value the handle showed (0: the null handle).
get(S, tid, key) ==
    LET S1 == enter_epoch(S, tid)
        r == get_lockless(S1, key)
        S2 == IF r.ptr = NullPtr THEN S1
              ELSE rc_dec(mark_access(rc_inc(S1, r.ptr), tid, r.idx, r.gen), r.ptr)
    IN [st |-> leave_epoch(S2, tid),
        v |-> IF r.ptr = NullPtr THEN 0 ELSE S1.heap[r.ptr].v]

\* ------------------------------------------------------------------- Init
EmptyRing ==
    [buffer |-> [i \in 0 .. (RingCapacity - 1) |-> [idx |-> 0, gen |-> 0]],
     tail |-> 0, head_cache |-> 0, head |-> 0, tail_cache |-> 0]

\* The reader thread.  (ptr, ctrl) is the handle it is copying, element
\* pointer and control block; (ret_ptr, ret_ctrl) is the handle of an earlier
\* get that the caller still holds, a get of `key`.  snap and seen are
\* history: the handle the slot held when gen1 was loaded, and the object
\* [k, v] that the held handle showed when get returned it from slot idx.
\* own names the writer whose puts this same thread issues (0: the thread
\* only reads); mine and stale are history of these puts: the object the
\* thread's put in progress has allocated, and the objects that held a key
\* before a put of this thread for that key returned.
NoObject == [k |-> 0, v |-> 0, idx |-> 0]

IdleReader ==
    [pc |-> "idle", key |-> 0, idx |-> 0, i |-> 0, gen1 |-> 0, e |-> 0,
     ptr |-> NullPtr, ctrl |-> NullPtr, snap |-> NullPtr,
     ret_ptr |-> NullPtr, ret_ctrl |-> NullPtr, seen |-> NoObject,
     own |-> 0, mine |-> NullPtr, stale |-> {}]

\* A writer thread.  res_ptr is the handle of put's first lookup, new_ptr
\* the new object, old the handle update_slot has moved out of the slot,
\* mask the bits apply_updates has still to process.  cleaned and trimmed
\* are history: apply_updates has run cleanup_retired in this put; the
\* thread's last put has found the retirement list at the threshold and has
\* run cleanup_retired at its end.
IdleWriter ==
    [pc |-> "idle", key |-> 0, value |-> 0, res_ptr |-> NullPtr,
     new_ptr |-> NullPtr, idx |-> 0, gen |-> 0, old |-> NullPtr, mask |-> {},
     cleaned |-> FALSE, trimmed |-> FALSE]

Writers == 1 .. NumWriters

InitSt ==
    [meta |-> [s \in Slots |-> [gen |-> 0, state |-> Empty, key |-> 0,
                                next |-> NullIdx, prev |-> NullIdx]],
     data |-> [s \in Slots |-> NullPtr],
     head |-> NullIdx, tail |-> NullIdx, size |-> 0,
     heap |-> <<>>, retired |-> <<>>, global_epoch |-> 1,
     active_epoch |-> [t \in Tids |-> 0],
     rings |-> [t \in Tids |-> EmptyRing],
     dirty_mask |-> {}, uaf |-> FALSE]

\* Lv3_ShardedCache after its constructor, and the threads before their
\* first call: id is the thread_local of get_thread_id (-1: not yet drawn).
ShardIds == 0 .. (ShardsCount - 1)

Threads == 1 .. NumThreads

InitCache ==
    [shards |-> [i \in ShardIds |-> [st |-> InitSt, lock |-> FALSE]],
     counter |-> 0,
     th |-> [t \in Threads |-> [pc |-> "idle", id |-> -1, key |-> 0, value |-> 0]]]

\* run_test before its threads start: a ring of the given variant with its
\* producer and consumer.  A cell of the buffer is [v, written]: written is
\* history, the producer has stored a payload in the cell.  The vector of
\* SPSC_RingBufferSlow starts with zeros; the arrays of the other two start
\* with whatever the memory holds, `fill`.  popped is history: the values
\* the successful pops have returned; raw: a pop has read a cell that no
\* push had written.
\* An MPSC_TraceBuffer after construction, its producer threads before
\* their first push and its consumer thread before its first pop.  The
\* values pushed are 1, 2, ...; a cell of the buffer that no push has
\* written is marked 0.  claimed, pushed and popped are history: for each
\* cell the value of the push whose compare_exchange has claimed it last,
\* the values whose push has returned true, and what pop has returned, in
\* order, each with the value claimed for the cell it was read from.
MpscCapacity == 2 ^ MpscCapacityLog2

InitMpsc ==
    [buffer |-> [i \in 0 .. (MpscCapacity - 1) |-> 0],
     tail |-> 0, head_cache |-> 0, head |-> 0, tail_cache |-> 0,
     prod |-> [p \in 1 .. NumProducers |->
                  [pc |-> "idle", curr_t |-> 0, value |-> 0, n |-> 0]],
     cons |-> [pc |-> "idle", curr_h |-> 0, value |-> 0, claimed |-> 0],
     claimed |-> [i \in 0 .. (MpscCapacity - 1) |-> 0],
     pushed |-> {}, popped |-> <<>>]

Variants == {"Slow", "Fast", "UltraFast"}

InitPool(variant, fill) ==
    [variant |-> variant,
     buffer |-> [c \in 0 .. (PoolCapacity - 1) |->
                    [v |-> IF variant = "Slow" THEN 0 ELSE fill, written |-> FALSE]],
     head |-> 0, tail |-> 0, head_cache |-> 0, tail_cache |-> 0,
     producer |-> [pc |-> "push", i |-> 0],
     consumer |-> [pc |-> "pop", i |-> 0, val |-> 0],
     popped |-> <<>>, raw |-> FALSE]

\* The shard is in state S.
Boot(S) ==
    /\ meta = S.meta
    /\ data = S.data
    /\ head = S.head
    /\ tail = S.tail
    /\ size = S.size
    /\ heap = S.heap
    /\ retired = S.retired
    /\ global_epoch = S.global_epoch
    /\ active_epoch = S.active_epoch
    /\ rings = S.rings
    /\ dirty_mask = S.dirty_mask
    /\ uaf = S.uaf

Init ==
    /\ rd = IdleReader
    /\ wr = [w \in Writers |-> IdleWriter]
    /\ spin_lock = FALSE
    /\ Boot(InitSt)
    /\ shadow = [k \in Keys |-> [v |-> 0, was_evicted |-> FALSE]]
    /\ recency = <<>>
    /\ last_evict = [victim |-> -1, lru |-> -1]
    /\ cache = InitCache
    /\ pool = InitPool("Slow", 0)
    /\ strict = <<>>
    /\ mpsc = InitMpsc

\* ------------------------------------------------------- history variables
Without(seq, k) == SelectSeq(seq, LAMBDA x : x # k)

Touch(seq, k) == <<k>> \o Without(seq, k)

NoEviction == [victim |-> -1, lru |-> -1]

\* The history after a put(key, value) that evicted `victim` (-1: nobody).
\* The order of accesses is recorded only when `track` is set (SpecLRU).
PutHistory(track, key, value, victim) ==
    /\ shadow' = [k \in Keys |->
                      IF k = key THEN [shadow[k] EXCEPT !.v = value]
                      ELSE IF k = victim THEN [v |-> 0, was_evicted |-> TRUE]
                      ELSE shadow[k]]
    /\ recency' = IF track THEN Touch(Without(recency, victim), key) ELSE recency
    /\ last_evict' = IF track /\ victim # -1
                     THEN [victim |-> victim, lru |-> recency[Len(recency)]]
                     ELSE NoEviction
    /\ UNCHANGED <<cache, pool, strict, mpsc>>

\* ---------------------------------------- one thread, atomic operations
\* A thread that holds the spin lock forever has stopped inside a probe.
\* put, quiet update: the key is present with an equal value.
PutQuiet(key, value, track) ==
    LET res == lookup(St, key) IN
    /\ ~spin_lock
    /\ ~res.loops
    /\ is_quiet(St, res, value)
    /\ Store(move_to_front(St, res.idx))
    /\ PutHistory(track, key, value, -1)
    /\ UNCHANGED <<spin_lock, rd, wr>>

\* The values a put may carry.  Values are compared only with the value the
\* same key holds at that moment, so the value put for an absent key is
\* named 1: every other choice gives the same runs up to the names.
PutValues(res) == IF res.ptr = NullPtr THEN {1} ELSE Values

\* put, slow path: allocate, bump, drain, commit, clean up.
PutSlow(key, value, bound, track) ==
    LET res == lookup(St, key)
        S1 == allocate_shared(St, key, value)
        c == put_commit_section(S1, key, fresh_id(St))
    IN
    /\ ~spin_lock
    /\ global_epoch < bound
    /\ value \in PutValues(res)
    /\ ~res.loops
    /\ ~is_quiet(St, res, value)
    /\ ~c.loops
    /\ Store(c.st)
    /\ PutHistory(track, key, value, c.victim)
    /\ UNCHANGED <<spin_lock, rd, wr>>

\* put whose first lookup never returns: the thread spins inside the probe
\* with the lock held.
PutLoops(key) ==
    /\ ~spin_lock
    /\ lookup(St, key).loops
    /\ spin_lock' = TRUE
    /\ UNCHANGED <<mapvars, heap, retired, global_epoch, active_epoch, rings,
                   dirty_mask, rd, wr, histvars>>

\* get: enter the epoch, probe, record the trace, leave.  The caller drops
\* the handle it receives.
Get(key, track) ==
    LET S1 == enter_epoch(St, 0)
        r == get_lockless(S1, key)
        S2 == IF r.ptr = NullPtr THEN S1
              ELSE rc_dec(mark_access(rc_inc(S1, r.ptr), 0, r.idx, r.gen), r.ptr)
    IN
    /\ ~spin_lock
    /\ Store(leave_epoch(S2, 0))
    /\ recency' = IF track /\ r.ptr # NullPtr THEN Touch(recency, key) ELSE recency
    /\ last_evict' = NoEviction
    /\ UNCHANGED <<spin_lock, rd, wr, shadow, cache, pool, strict, mpsc>>

\* Spec: one thread, any sequence of put and get.
Next ==
    \/ \E k \in Keys, v \in Values : PutQuiet(k, v, FALSE)
    \/ \E k \in Keys, v \in Values : PutSlow(k, v, MaxEpoch, FALSE)
    \/ \E k \in Keys : PutLoops(k)
    \/ \E k \in Keys : Get(k, FALSE)

Spec == Init /\ [][Next]_vars

\* The capacity of the trace ring of a shard.
spsc_capacity(capacity, max_threads) == capacity \div (4 * max_threads)

\* A trace ring of capacity c after construction.
RingOf(c) ==
    [buffer |-> [i \in 0 .. (c - 1) |-> [idx |-> 0, gen |-> 0]],
     tail |-> 0, head_cache |-> 0, head |-> 0, tail_cache |-> 0]

\* SpecSized: the thread of Spec on a shard whose trace rings have the
\* capacity that a shard of 4 or of 8 keys per thread gives them; the table
\* is the table of Capacity keys of the other specifications.
ShardCapacities == {4 * MaxThreads * (2 ^ j) : j \in 0 .. MaxRingLog2}

InitSized ==
    /\ rd = IdleReader
    /\ wr = [w \in Writers |-> IdleWriter]
    /\ spin_lock = FALSE
    /\ \E c \in ShardCapacities :
          Boot([InitSt EXCEPT
                   !.rings = [t \in Tids |-> RingOf(spsc_capacity(c, MaxThreads))]])
    /\ shadow = [k \in Keys |-> [v |-> 0, was_evicted |-> FALSE]]
    /\ recency = <<>>
    /\ last_evict = NoEviction
    /\ cache = InitCache
    /\ pool = InitPool("Slow", 0)
    /\ strict = <<>>
    /\ mpsc = InitMpsc

SpecSized == InitSized /\ [][Next]_vars

MpscFrame == UNCHANGED <<mapvars, engvars, rd, wr, shadow, recency, last_evict,
                         uaf, cache, pool, strict>>

\* MPSC_TraceBuffer::push by producer thread p, one access to the shared
\* members at a step.  The n-th push of p carries the value
\* (p - 1) * MpscItems + n.
mpsc_push(p) ==
    LET P == mpsc.prod[p]
        Mask == MpscCapacity - 1
        full == ((P.curr_t + 1) % (Mask + 1)) = mpsc.head_cache
    IN  /\ MpscFrame
        /\ \/ /\ P.pc = "idle"
              /\ P.n < MpscItems
              /\ mpsc' = [mpsc EXCEPT !.prod[p] =
                             [pc |-> "check", curr_t |-> mpsc.tail,
                              value |-> (p - 1) * MpscItems + P.n + 1,
                              n |-> P.n + 1]]
           \/ /\ P.pc = "check"
              /\ mpsc' = [mpsc EXCEPT !.prod[p].pc =
                             IF full THEN "reload" ELSE "cas"]
           \/ /\ P.pc = "reload"
              /\ mpsc' = [mpsc EXCEPT !.head_cache = mpsc.head,
                                      !.prod[p].pc = "recheck"]
           \/ /\ P.pc = "recheck"
              /\ mpsc' = [mpsc EXCEPT !.prod[p].pc =
                             IF full THEN "idle" ELSE "cas"]
           \/ /\ P.pc = "cas"
              /\ mpsc.tail = P.curr_t
              /\ mpsc' = [mpsc EXCEPT !.tail = (P.curr_t + 1) % (Mask + 1),
                                      !.claimed[P.curr_t] = P.value,
                                      !.prod[p].pc = "write"]
           \/ /\ P.pc = "cas"
              /\ mpsc' = [mpsc EXCEPT !.prod[p].curr_t = mpsc.tail,
                                      !.prod[p].pc = "check"]
           \/ /\ P.pc = "write"
              /\ mpsc' = [mpsc EXCEPT !.buffer[P.curr_t] = P.value,
                                      !.pushed = @ \cup {P.value},
                                      !.prod[p].pc = "idle"]

\* MPSC_TraceBuffer::pop by the consumer thread.  Reading a cell that no
\* push has written yields any value.
mpsc_pop ==
    LET Q == mpsc.cons
        Mask == MpscCapacity - 1
    IN  /\ MpscFrame
        /\ \/ /\ Q.pc = "idle"
              /\ mpsc.head # mpsc.tail_cache
              /\ mpsc' = [mpsc EXCEPT !.cons.pc = "read",
                                      !.cons.curr_h = mpsc.head]
           \/ /\ Q.pc = "idle"
              /\ mpsc.head = mpsc.tail_cache
              /\ mpsc' = [mpsc EXCEPT !.tail_cache = mpsc.tail,
                                      !.cons.curr_h = mpsc.head,
                                      !.cons.pc =
                                          IF mpsc.head = mpsc.tail
                                          THEN "idle" ELSE "read"]
           \/ /\ Q.pc = "read"
              /\ \E v \in 0 .. (NumProducers * MpscItems) :
                    /\ mpsc.buffer[Q.curr_h] # 0 => v = mpsc.buffer[Q.curr_h]
                    /\ mpsc' = [mpsc EXCEPT !.cons.value = v,
                                            !.cons.claimed = mpsc.claimed[Q.curr_h],
                                            !.cons.pc = "store"]
           \/ /\ Q.pc = "store"
              /\ mpsc' = [mpsc EXCEPT !.head = (Q.curr_h + 1) % (Mask + 1),
                                      !.popped = Append(@, [value |-> Q.value,
                                                            claimed |-> Q.claimed]),
                                      !.cons.pc = "idle"]

\* SpecMpsc: the producer threads and the consumer thread of one
\* MPSC_TraceBuffer.
NextMpsc == (\E p \in 1 .. NumProducers : mpsc_push(p)) \/ mpsc_pop

SpecMpsc == Init /\ [][NextMpsc]_vars

\* SpecLRU: the same thread, with the order of its accesses recorded.
NextLRU ==
    \/ \E k \in Keys, v \in Values : PutQuiet(k, v, TRUE)
    \/ \E k \in Keys, v \in Values : PutSlow(k, v, MaxEpoch, TRUE)
    \/ \E k \in Keys : Get(k, TRUE)

SpecLRU == Init /\ [][NextLRU]_vars

\* ------------------------------------------------------------- StrictLRU
\* _freq_list as a sequence of [k, v], _collection as the search in it.
find(L, key) ==
    IF \E i \in 1 .. Len(L) : L[i].k = key
    THEN CHOOSE i \in 1 .. Len(L) : L[i].k = key
    ELSE 0

\* refresh: splice the element to the front.
refresh(L, i) == <<L[i]>> \o SubSeq(L, 1, i - 1) \o SubSeq(L, i + 1, Len(L))

\* StrictLRU::get: [list, v], v = 0 for the empty optional.
strict_get(L, key) ==
    LET it == find(L, key) IN
    IF it = 0 THEN [list |-> L, v |-> 0]
    ELSE [list |-> refresh(L, it), v |-> L[it].v]

\* StrictLRU::put.
strict_put(L, key, value) ==
    LET it == find(L, key) IN
    IF it # 0 THEN refresh([L EXCEPT ![it].v = value], it)
    ELSE <<[k |-> key, v |-> value]>>
            \o (IF Len(L) = Capacity THEN SubSeq(L, 1, Len(L) - 1) ELSE L)

\* SpecRef: one thread gives every operation to a shard and to a StrictLRU
\* of the same capacity.  Every put carries a value that differs from the
\* value the shard holds for the key, and a get that hits finds room for
\* its trace in the ring.
RefPut(key, value) ==
    LET res == lookup(St, key)
        c == put(St, key, value)
    IN
    /\ ~spin_lock
    /\ global_epoch < MaxEpoch
    /\ ~res.loops
    /\ value \in PutValues(res)
    /\ ~is_quiet(St, res, value)
    /\ ~c.loops
    /\ Store(c.st)
    /\ strict' = strict_put(strict, key, value)
    /\ UNCHANGED <<spin_lock, rd, wr, shadow, recency, last_evict, cache, pool, mpsc>>

RefGet(key) ==
    LET r == get_lockless(St, key) IN
    /\ ~spin_lock
    /\ r.ptr # NullPtr => push(rings[0], [idx |-> r.idx, gen |-> r.gen]).ok
    /\ Store(get(St, 0, key).st)
    /\ strict' = strict_get(strict, key).list
    /\ UNCHANGED <<spin_lock, rd, wr, shadow, recency, last_evict, cache, pool, mpsc>>

NextRef ==
    \/ \E k \in Keys, v \in Values : RefPut(k, v)
    \/ \E k \in Keys : RefGet(k)

SpecRef == Init /\ [][NextRef]_vars

\* ------------------------------- interleaved threads: the reader's steps
\* One step per atomic load or store of get().  The reader is the first
\* thread that calls get_thread_id, so its id is 0.
hist3 == <<shadow, recency, last_evict, cache, pool, strict, mpsc>>

ReaderTid == 0

\* The keys the threads of SpecC use: two that the shard holds at the start
\* and one that collides with the first of them.
KeysC == {0, 1, TableSize}

\* The reader between two calls, with the history of its thread's puts.
Rest(r) == [IdleReader EXCEPT !.own = r.own, !.mine = r.mine, !.stale = r.stale]

\* The reader moves on to the next slot of its probe.
advance(r) == [r EXCEPT !.pc = "gen1", !.idx = next_slot(r.idx), !.i = r.i + 1,
                        !.gen1 = 0, !.snap = NullPtr]

\* get_lockless returns the null result.
miss(r) == [r EXCEPT !.pc = "leave", !.idx = 0, !.i = 0, !.gen1 = 0,
                     !.ptr = NullPtr, !.ctrl = NullPtr, !.snap = NullPtr]

\* Variant: get starts only while the lock is free.
R_Call_unlocked(key) ==
    /\ rd.pc = "idle"
    /\ ~spin_lock
    /\ rd.ret_ptr = NullPtr /\ rd.ret_ctrl = NullPtr
    /\ rd' = [rd EXCEPT !.pc = "enter", !.key = key, !.e = current_epoch(St)]
    /\ UNCHANGED <<mapvars, engvars, wr, histvars>>

\* get(key) is called; enter_epoch loads the global epoch.  The caller holds
\* one handle at a time: it has destroyed the handle of its last get.
R_Call(key) ==
    /\ rd.pc = "idle"
    /\ rd.ret_ptr = NullPtr /\ rd.ret_ctrl = NullPtr
    /\ rd' = [rd EXCEPT !.pc = "enter", !.key = key, !.e = current_epoch(St)]
    /\ UNCHANGED <<mapvars, engvars, wr, histvars>>

\* enter_epoch stores the epoch it has loaded in the thread's slot.
R_Enter ==
    /\ rd.pc = "enter"
    /\ active_epoch' = [active_epoch EXCEPT ![ReaderTid] = rd.e]
    /\ rd' = [rd EXCEPT !.pc = "gen1", !.e = 0,
                        !.idx = calculate_hash_idx(rd.key), !.i = 0]
    /\ UNCHANGED <<mapvars, heap, retired, global_epoch, rings, dirty_mask,
                   spin_lock, wr, histvars>>

\* The first load of gen, or the end of the probe after TableSize slots.
R_Gen1 ==
    /\ rd.pc = "gen1"
    /\ rd' = IF rd.i = TableSize THEN miss(rd)
             ELSE IF meta[rd.idx].gen % 2 = 1
             THEN [rd EXCEPT !.pc = "wait", !.gen1 = meta[rd.idx].gen]
             ELSE [rd EXCEPT !.pc = "state", !.gen1 = meta[rd.idx].gen,
                             !.snap = data[rd.idx]]
    /\ UNCHANGED <<mapvars, engvars, wr, histvars>>

\* gen.wait returns once gen differs from the odd value; the reader loads
\* gen again and gives up when it is odd again.
R_Wait ==
    /\ rd.pc = "wait"
    /\ meta[rd.idx].gen # rd.gen1
    /\ rd' = IF meta[rd.idx].gen % 2 = 1 THEN miss(rd)
             ELSE [rd EXCEPT !.pc = "state", !.gen1 = meta[rd.idx].gen,
                             !.snap = data[rd.idx]]
    /\ UNCHANGED <<mapvars, engvars, wr, histvars>>

\* The load of state.
R_State ==
    /\ rd.pc = "state"
    /\ rd' = IF meta[rd.idx].state = Empty THEN miss(rd)
             ELSE IF meta[rd.idx].state = Occupied THEN [rd EXCEPT !.pc = "key"]
             ELSE advance(rd)
    /\ UNCHANGED <<mapvars, engvars, wr, histvars>>

\* The load of key.
R_Key ==
    /\ rd.pc = "key"
    /\ rd' = IF meta[rd.idx].key = rd.key THEN [rd EXCEPT !.pc = "ptr"]
             ELSE advance(rd)
    /\ UNCHANGED <<mapvars, engvars, wr, histvars>>

\* The copy of the slot's shared_ptr is not atomic and races with the
\* writer's stores: the element pointer, the control block pointer and the
\* increment of the use count are three steps, and the writer may store in
\* between, so the copy may pair the pointer of one handle with the control
\* block of a later one (or of none).  The writer's store of a handle is
\* one step: the halves of its store are seen only while gen is odd, and a
\* copy that has seen one of them pairs a pointer with no control block or
\* the reverse, as the copies of the three steps do.
R_Ptr ==
    /\ rd.pc = "ptr"
    /\ rd' = [rd EXCEPT !.pc = "ctrl", !.ptr = data[rd.idx]]
    /\ UNCHANGED <<mapvars, engvars, wr, histvars>>

R_Ctrl ==
    /\ rd.pc = "ctrl"
    /\ rd' = [rd EXCEPT !.pc = "incr", !.ctrl = data[rd.idx]]
    /\ UNCHANGED <<mapvars, engvars, wr, histvars>>

R_Incr ==
    /\ rd.pc = "incr"
    /\ Store(rc_inc(St, rd.ctrl))
    /\ rd' = [rd EXCEPT !.pc = "gen2"]
    /\ UNCHANGED <<spin_lock, wr, hist3>>

\* Variant: the reader accepts whatever the second load of gen finds.
gen_unchecked(S, idx, gen1) == S.meta[idx].gen >= 0

\* The second load of gen equals the first.
gen_unchanged(S, idx, gen1) == S.meta[idx].gen = gen1

\* Variant: a get that hits makes its slot the head of the list.
R_Gen2_promotes ==
    /\ rd.pc = "gen2"
    /\ IF gen_unchanged(St, rd.idx, rd.gen1) /\ rd.ptr # NullPtr
       THEN /\ rd' = [rd EXCEPT !.pc = "push"]
            /\ Store(move_to_front(St, rd.idx))
            /\ UNCHANGED spin_lock
       ELSE /\ Store(rc_dec(St, rd.ctrl))
            /\ rd' = miss(rd)
            /\ UNCHANGED spin_lock
    /\ UNCHANGED <<wr, hist3>>

\* The second load of gen.  On a mismatch, and in get() on a result whose
\* element pointer is null, the copy is destroyed and get returns null.
R_Gen2 ==
    /\ rd.pc = "gen2"
    /\ IF gen_unchanged(St, rd.idx, rd.gen1) /\ rd.ptr # NullPtr
       THEN /\ rd' = [rd EXCEPT !.pc = "push"]
            /\ UNCHANGED <<mapvars, engvars, uaf>>
       ELSE /\ Store(rc_dec(St, rd.ctrl))
            /\ rd' = miss(rd)
            /\ UNCHANGED spin_lock
    /\ UNCHANGED <<wr, hist3>>

\* mark_access: push the trace.
R_Push ==
    LET r == push(rings[ReaderTid], [idx |-> rd.idx, gen |-> rd.gen1]) IN
    /\ rd.pc = "push"
    /\ rings' = [rings EXCEPT ![ReaderTid] = r.ring]
    /\ rd' = [rd EXCEPT !.pc = IF r.ok THEN "test" ELSE "leave",
                        !.i = 0, !.gen1 = 0, !.snap = NullPtr]
    /\ UNCHANGED <<mapvars, heap, retired, global_epoch, active_epoch,
                   dirty_mask, spin_lock, wr, histvars>>

\* Variant: mark_access takes the thread's bit for set.
R_Test_skips ==
    /\ rd.pc = "test"
    /\ rd' = [rd EXCEPT !.pc = "leave"]
    /\ UNCHANGED <<mapvars, engvars, wr, histvars>>

\* mark_access: test the thread's bit of the dirty mask.
R_Test ==
    /\ rd.pc = "test"
    /\ rd' = [rd EXCEPT !.pc = IF ReaderTid \in dirty_mask THEN "leave" ELSE "set"]
    /\ UNCHANGED <<mapvars, engvars, wr, histvars>>

\* mark_access: fetch_or of the thread's bit.
R_Set ==
    /\ rd.pc = "set"
    /\ dirty_mask' = dirty_mask \cup {ReaderTid}
    /\ rd' = [rd EXCEPT !.pc = "leave"]
    /\ UNCHANGED <<mapvars, heap, retired, global_epoch, active_epoch, rings,
                   spin_lock, wr, histvars>>

\* Variant: a get that misses returns without leave_epoch.
R_Leave_hit_only ==
    /\ rd.pc = "leave"
    /\ Store(IF rd.ptr = NullPtr THEN St ELSE leave_epoch(St, ReaderTid))
    /\ rd' = IF rd.ptr = NullPtr THEN Rest(rd)
             ELSE [Rest(rd) EXCEPT
                      !.key = rd.key, !.ret_ptr = rd.ptr, !.ret_ctrl = rd.ctrl,
                      !.seen = [k |-> heap[rd.ptr].k, v |-> heap[rd.ptr].v,
                                idx |-> rd.idx]]
    /\ UNCHANGED <<spin_lock, wr, hist3>>

\* get returns: the guard leaves the epoch and the caller has the handle.
R_Leave ==
    /\ rd.pc = "leave"
    /\ Store(leave_epoch(St, ReaderTid))
    /\ rd' = IF rd.ptr = NullPtr THEN Rest(rd)
             ELSE [Rest(rd) EXCEPT
                      !.key = rd.key, !.ret_ptr = rd.ptr, !.ret_ctrl = rd.ctrl,
                      !.seen = [k |-> heap[rd.ptr].k, v |-> heap[rd.ptr].v,
                                idx |-> rd.idx]]
    /\ UNCHANGED <<spin_lock, wr, hist3>>

\* The caller destroys the handle it holds.
R_Drop ==
    /\ rd.pc = "idle"
    /\ rd.ret_ptr # NullPtr \/ rd.ret_ctrl # NullPtr
    /\ Store(rc_dec(St, rd.ret_ctrl))
    /\ rd' = Rest(rd)
    /\ UNCHANGED <<spin_lock, wr, hist3>>

ReaderOn(keys) ==
    \/ \E k \in keys : R_Call(k)
    \/ R_Enter
    \/ R_Gen1
    \/ R_Wait
    \/ R_State
    \/ R_Key
    \/ R_Ptr
    \/ R_Ctrl
    \/ R_Incr
    \/ R_Gen2
    \/ R_Push
    \/ R_Test
    \/ R_Set
    \/ R_Leave
    \/ R_Drop

Reader == ReaderOn(KeysC)

\* ------------------------------ interleaved threads: the writers' steps
\* A writer takes one step per store that a reader can see.  What only the
\* lock holder touches (the links of the list, the retirement list, _size,
\* the lock itself) rides on the step of the visible store before it: no
\* other thread can tell when between two visible stores it happened.
WrSet(w, r) == wr' = [wr EXCEPT ![w] = r]

\* History of the puts of the reader's own thread.  Allocated: writer w
\* has allocated object p (an id that is in use again is no old object).
\* Returned: the put of writer w for `key` returns and leaves the shard in
\* state S; every object of that key alive then, except the put's own and
\* those other writers have allocated and not yet stored, is an earlier
\* value of the key.
Allocated(w, p) ==
    [rd EXCEPT !.stale = @ \ {p}, !.mine = IF w = rd.own THEN p ELSE @]

Returned(w, key, S, own_ptr) ==
    IF w # rd.own THEN rd
    ELSE [rd EXCEPT
             !.mine = NullPtr,
             !.stale = @ \cup
                 {p \in DOMAIN S.heap :
                      /\ S.heap[p].rc > 0
                      /\ S.heap[p].k = key
                      /\ p # own_ptr
                      /\ p \notin {wr[x].new_ptr : x \in Writers}}]

\* The writers that wait for the second lock section.
BeforeBump == {w \in Writers : wr[w].pc = "lock2"}

\* put(key, value) up to the second spin_wait: the first lock section
\* (lookup, the quiet update or the way to the slow path, release_lock) and
\* allocate_shared.  A lookup that never returns keeps the lock.
W_Put(w, key, value, bound) ==
    LET res == lookup(St, key)
        S1 == rc_inc(St, res.ptr)
    IN
    /\ wr[w].pc = "idle"
    /\ ~spin_lock
    /\ IF res.loops
       THEN /\ spin_lock' = TRUE
            /\ WrSet(w, [IdleWriter EXCEPT !.pc = "spin", !.key = key, !.value = value])
            /\ UNCHANGED <<mapvars, heap, retired, global_epoch, active_epoch,
                           rings, dirty_mask, uaf, rd>>
       ELSE IF is_quiet(St, res, value)
       THEN /\ Store(move_to_front(St, res.idx))
            /\ WrSet(w, IdleWriter)
            /\ rd' = Returned(w, key, St, res.ptr)
            /\ UNCHANGED spin_lock
       ELSE /\ global_epoch + Cardinality(BeforeBump) < bound
            /\ value \in PutValues(res)
            /\ Store(allocate_shared(S1, key, value))
            /\ WrSet(w, [IdleWriter EXCEPT !.pc = "lock2", !.key = key, !.value = value,
                                           !.res_ptr = res.ptr, !.new_ptr = fresh_id(S1)])
            /\ rd' = Allocated(w, fresh_id(S1))
            /\ UNCHANGED spin_lock
    /\ UNCHANGED hist3

\* Variant: commit_put trusts the verdict of put's first lookup.
final_lookup_stale(S, key, res_ptr) ==
    IF res_ptr = NullPtr
    THEN [ptr |-> NullPtr, idx |-> assign_slot(S, key).idx, gen |-> 0,
          loops |-> assign_slot(S, key).loops]
    ELSE lookup(S, key)

\* commit_put looks the key up again under the second lock.
final_lookup(S, key, res_ptr) == lookup(S, key)

\* commit_put up to its first visible store: the second lookup and, for an
\* insertion into a full shard, the retirement of the tail's value and the
\* detach of erase_index.  [st, me]: the shard and the writer afterwards.
commit_begin(S, me) ==
    LET final_res == final_lookup(S, me.key, me.res_ptr)
        tail_idx == S.tail
        evicted_ptr == S.data[tail_idx]
        S1 == retire(rc_inc(S, evicted_ptr), evicted_ptr)
    IN
    IF final_res.loops
    THEN [st |-> S, me |-> [me EXCEPT !.pc = "spin"]]
    ELSE IF final_res.ptr # NullPtr
    THEN [st |-> S, me |-> [me EXCEPT !.pc = "u_gen1", !.idx = final_res.idx,
                                      !.gen = S.meta[final_res.idx].gen]]
    ELSE IF must_evict(S)
    THEN IF tail_idx = NullIdx \/ S.meta[tail_idx].state # Occupied
         THEN LET a == assign_slot(S1, me.key) IN
              [st |-> S1, me |-> IF a.loops THEN [me EXCEPT !.pc = "spin"]
                                 ELSE [me EXCEPT !.pc = "e_gen1", !.idx = a.idx]]
         ELSE [st |-> detach(S1, tail_idx),
               me |-> [me EXCEPT !.pc = "x_gen1", !.idx = tail_idx]]
    ELSE [st |-> S, me |-> [me EXCEPT !.pc = "e_gen1", !.idx = final_res.idx]]

\* The second spin_wait, bump_epoch, the load of the dirty mask and either
\* the exchange of apply_updates or the start of commit_put.
W_Lock2(w) ==
    LET S1 == bump_epoch(St)
        c == commit_begin(S1, wr[w])
    IN
    /\ wr[w].pc = "lock2"
    /\ ~spin_lock
    /\ spin_lock' = TRUE
    /\ IF S1.dirty_mask # {}
       THEN /\ Store([S1 EXCEPT !.dirty_mask = {}])
            /\ WrSet(w, [wr[w] EXCEPT !.pc = "drain", !.mask = S1.dirty_mask])
       ELSE /\ Store(c.st)
            /\ WrSet(w, c.me)
    /\ UNCHANGED <<rd, hist3>>

\* process_buffer: one pop of the ring of the lowest bit left; a pop that
\* fails ends that ring's loop.
W_Pop(w) ==
    LET me == wr[w]
        b == CHOOSE x \in me.mask : \A y \in me.mask : x <= y
        r == pop(rings[b])
        S1 == [St EXCEPT !.rings[b] = r.ring]
    IN
    /\ me.pc = "drain"
    /\ me.mask # {}
    /\ Store(IF r.ok /\ is_valid_gen(S1, r.value.idx, r.value.gen)
             THEN move_to_front(S1, r.value.idx) ELSE S1)
    /\ WrSet(w, IF r.ok THEN me ELSE [me EXCEPT !.mask = me.mask \ {b}])
    /\ UNCHANGED <<spin_lock, rd, hist3>>

\* apply_updates: the cleanup after the last ring; then the start of
\* commit_put.
W_DrainEnd(w) ==
    LET S1 == IF retired # <<>> THEN cleanup_retired(St) ELSE St
        c == commit_begin(S1, [wr[w] EXCEPT !.cleaned = retired # <<>>])
    IN
    /\ wr[w].pc = "drain"
    /\ wr[w].mask = {}
    /\ Store(c.st)
    /\ WrSet(w, c.me)
    /\ UNCHANGED <<spin_lock, rd, hist3>>

\* One store of the lock holder to the slot it is working on.
WriterStore(w, from, to, S) ==
    /\ wr[w].pc = from
    /\ Store(S)
    /\ WrSet(w, [wr[w] EXCEPT !.pc = to])
    /\ UNCHANGED <<spin_lock, rd, hist3>>

\* History: the put that ends on shard S finds the retirement list at the
\* threshold.
at_threshold(S, me) ==
    Len(S.retired) + (IF me.old # NullPtr THEN 1 ELSE 0) >= RetiredThreshold

\* Variant: put does not look at the length of the retirement list.
finish_no_cleanup(S, me) ==
    LET S1 == IF me.old # NullPtr THEN retire(S, me.old) ELSE S
    IN rc_dec(move_to_front(S1, me.idx), me.res_ptr)

\* Variant: commit_put lets go of the handle update_slot has returned.
finish_no_retire(S, me) ==
    LET S1 == IF me.old # NullPtr THEN rc_dec(S, me.old) ELSE S
        S2 == move_to_front(S1, me.idx)
        S3 == IF Len(S2.retired) >= RetiredThreshold THEN cleanup_retired(S2) ELSE S2
    IN rc_dec(S3, me.res_ptr)

\* The rest of put after the last store of commit_put to the slot: the
\* retirement of the handle update_slot returned, move_to_front, the cleanup
\* of a long retirement list, and the end of the handle of the first lookup.
finish(S, me) ==
    LET S1 == IF me.old # NullPtr THEN retire(S, me.old) ELSE S
        S2 == move_to_front(S1, me.idx)
        S3 == IF Len(S2.retired) >= RetiredThreshold THEN cleanup_retired(S2) ELSE S2
    IN rc_dec(S3, me.res_ptr)

\* Variant: put returns without release_lock.
WriterLast_locked(w, from, S) ==
    /\ wr[w].pc = from
    /\ Store(finish(S, wr[w]))
    /\ WrSet(w, [IdleWriter EXCEPT !.trimmed = at_threshold(S, wr[w])])
    /\ rd' = Returned(w, wr[w].key, finish(S, wr[w]), rd.mine)
    /\ UNCHANGED <<spin_lock, hist3>>

\* The last store to the slot, the rest of put and release_lock.
WriterLast(w, from, S) ==
    /\ wr[w].pc = from
    /\ Store(finish(S, wr[w]))
    /\ spin_lock' = FALSE
    /\ WrSet(w, [IdleWriter EXCEPT !.trimmed = at_threshold(S, wr[w])])
    /\ rd' = Returned(w, wr[w].key, finish(S, wr[w]), rd.mine)
    /\ UNCHANGED hist3

\* update_slot: gen odd.
W_UpdGen1(w) ==
    WriterStore(w, "u_gen1", "u_out", gen_store(St, wr[w].idx, wr[w].gen + 1))

\* update_slot: the old handle is moved out of the slot.
W_UpdOut(w) ==
    /\ wr[w].pc = "u_out"
    /\ Store(value_store(St, wr[w].idx, NullPtr))
    /\ WrSet(w, [wr[w] EXCEPT !.pc = "u_in", !.old = data[wr[w].idx]])
    /\ UNCHANGED <<spin_lock, rd, hist3>>

\* Variant: update_slot puts the old handle back into the slot.
W_UpdIn_old(w) ==
    /\ wr[w].pc = "u_in"
    /\ Store(value_store(St, wr[w].idx, wr[w].old))
    /\ WrSet(w, [wr[w] EXCEPT !.pc = "u_gen2", !.new_ptr = NullPtr])
    /\ UNCHANGED <<spin_lock, rd, hist3>>

\* update_slot: the new handle is moved into the slot.
W_UpdIn(w) ==
    /\ wr[w].pc = "u_in"
    /\ Store(value_store(St, wr[w].idx, wr[w].new_ptr))
    /\ WrSet(w, [wr[w] EXCEPT !.pc = "u_gen2", !.new_ptr = NullPtr])
    /\ UNCHANGED <<spin_lock, rd, hist3>>

\* Variant: update_slot ends with the gen it has found.
W_UpdGen2_back(w) ==
    WriterLast(w, "u_gen2",
               gen_store(state_store(St, wr[w].idx, Occupied),
                         wr[w].idx, wr[w].gen))

\* update_slot: state (Occupied as before, no reader can tell) and gen even.
W_UpdGen2(w) ==
    WriterLast(w, "u_gen2",
               gen_store(state_store(St, wr[w].idx, Occupied),
                         wr[w].idx, wr[w].gen + 2))

\* erase_index: gen odd.
W_EraseGen1(w) == WriterStore(w, "x_gen1", "x_val", gen_add(St, wr[w].idx))

\* erase_index: value = nullptr.
W_EraseVal(w) ==
    WriterStore(w, "x_val", "x_state",
                value_store(rc_dec(St, data[wr[w].idx]), wr[w].idx, NullPtr))

\* Variant: erase_index leaves the slot Empty.
W_EraseState_empty(w) ==
    WriterStore(w, "x_state", "x_gen2", state_store(St, wr[w].idx, Empty))

\* erase_index: state Deleted.
W_EraseState(w) ==
    WriterStore(w, "x_state", "x_gen2", state_store(St, wr[w].idx, Deleted))

\* erase_index: gen even, --_size; then assign_slot.
W_EraseGen2(w) ==
    LET S1 == [gen_add(St, wr[w].idx) EXCEPT !.size = @ - 1]
        a == assign_slot(S1, wr[w].key)
    IN
    /\ wr[w].pc = "x_gen2"
    /\ Store(S1)
    /\ WrSet(w, IF a.loops THEN [wr[w] EXCEPT !.pc = "spin"]
                ELSE [wr[w] EXCEPT !.pc = "e_gen1", !.idx = a.idx])
    /\ UNCHANGED <<spin_lock, rd, hist3>>

\* emplace_at: gen odd.
W_EmplaceGen1(w) == WriterStore(w, "e_gen1", "e_key", gen_add(St, wr[w].idx))

\* emplace_at: key.
W_EmplaceKey(w) ==
    WriterStore(w, "e_key", "e_val", key_store(St, wr[w].idx, wr[w].key))

\* emplace_at: the new handle is moved into the slot.
W_EmplaceVal(w) ==
    /\ wr[w].pc = "e_val"
    /\ Store(value_store(St, wr[w].idx, wr[w].new_ptr))
    /\ WrSet(w, [wr[w] EXCEPT !.pc = "e_state", !.new_ptr = NullPtr])
    /\ UNCHANGED <<spin_lock, rd, hist3>>

\* emplace_at: state Occupied.
W_EmplaceState(w) ==
    WriterStore(w, "e_state", "e_gen2", state_store(St, wr[w].idx, Occupied))

\* emplace_at: gen even, ++_size.
W_EmplaceGen2(w) ==
    WriterLast(w, "e_gen2", [gen_add(St, wr[w].idx) EXCEPT !.size = @ + 1])

Writer(w, keys, bound) ==
    \/ \E k \in keys, v \in Values : W_Put(w, k, v, bound)
    \/ W_Lock2(w)
    \/ W_Pop(w)
    \/ W_DrainEnd(w)
    \/ W_UpdGen1(w)
    \/ W_UpdOut(w)
    \/ W_UpdIn(w)
    \/ W_UpdGen2(w)
    \/ W_EraseGen1(w)
    \/ W_EraseVal(w)
    \/ W_EraseState(w)
    \/ W_EraseGen2(w)
    \/ W_EmplaceGen1(w)
    \/ W_EmplaceKey(w)
    \/ W_EmplaceVal(w)
    \/ W_EmplaceState(w)
    \/ W_EmplaceGen2(w)

\* One put of a single thread from state S, slow path.
put_alone(S, key, value) ==
    put_commit_section(allocate_shared(S, key, value), key, fresh_id(S)).st

\* The threads start on a shard that one thread has filled: it has put the
\* keys 0 .. Capacity-1, each with the value 1.
RECURSIVE WarmUp(_, _)
WarmUp(S, n) == IF n = 0 THEN S ELSE put_alone(WarmUp(S, n - 1), n - 1, 1)

InitC ==
    /\ rd = IdleReader
    /\ wr = [w \in Writers |-> IdleWriter]
    /\ spin_lock = FALSE
    /\ Boot(WarmUp(InitSt, Capacity))
    /\ shadow = [k \in Keys |-> [v |-> IF k < Capacity THEN 1 ELSE 0,
                                 was_evicted |-> FALSE]]
    /\ recency = <<>>
    /\ last_evict = NoEviction
    /\ cache = InitCache
    /\ pool = InitPool("Slow", 0)
    /\ strict = <<>>
    /\ mpsc = InitMpsc

\* SpecC: the reader and one writer, step by step.
NextC == Reader \/ Writer(1, KeysC, MaxEpochC)

SpecC == InitC /\ [][NextC]_vars

\* SpecG: the reader and one writer, step by step, on the shard as it is
\* constructed.
NextG == Reader \/ Writer(1, KeysC, MaxEpochW)

SpecG == Init /\ [][NextG]_vars

\* SpecW: the writers step by step on an empty shard; the reader's gets
\* fall between their lock sections.
NextW ==
    \/ \E w \in Writers : Writer(w, Keys, MaxEpochW)
    \/ \E k \in Keys : Get(k, FALSE)

SpecW == Init /\ [][NextW]_vars

\* Variant: put allocates the new value inside its first lock section.
W_PutThrows_locked(w, key, value) ==
    LET res == lookup(St, key) IN
    /\ wr[w].pc = "idle"
    /\ ~spin_lock
    /\ ~res.loops
    /\ ~is_quiet(St, res, value)
    /\ value \in PutValues(res)
    /\ spin_lock' = TRUE
    /\ Store(rc_dec(rc_inc(St, res.ptr), res.ptr))
    /\ WrSet(w, [IdleWriter EXCEPT !.pc = "threw", !.key = key, !.value = value])
    /\ UNCHANGED <<rd, hist3>>

\* put(key, value) whose allocate_shared throws std::bad_alloc: the first
\* lock section (lookup, no quiet update, release_lock), then the exception
\* leaves put and destroys the handle of the first lookup on its way.
W_PutThrows(w, key, value) ==
    LET res == lookup(St, key) IN
    /\ wr[w].pc = "idle"
    /\ ~spin_lock
    /\ ~res.loops
    /\ ~is_quiet(St, res, value)
    /\ value \in PutValues(res)
    /\ Store(rc_dec(rc_inc(St, res.ptr), res.ptr))
    /\ WrSet(w, [IdleWriter EXCEPT !.pc = "threw", !.key = key, !.value = value])
    /\ UNCHANGED <<spin_lock, rd, hist3>>

\* The caller has caught the exception and goes on.
W_Caught(w) ==
    /\ wr[w].pc = "threw"
    /\ WrSet(w, IdleWriter)
    /\ UNCHANGED <<mapvars, engvars, rd, histvars>>

\* SpecA: writer 1 and the reader as in SpecW, next to a thread that calls
\* put while the allocator is exhausted.
Thrower == NumWriters

NextA ==
    \/ Writer(1, Keys, MaxEpochW)
    \/ \E k \in Keys : Get(k, FALSE)
    \/ \E k \in Keys, v \in Values : W_PutThrows(Thrower, k, v)
    \/ W_Caught(Thrower)

SpecA == Init /\ [][NextA]_vars

\* SpecLive: one thread (writer 1) under a fair scheduler.  put is two
\* steps: the call up to its last release_lock, and release_lock with the
\* return; a put whose probe never returns stays inside the lock section,
\* and its spinning is no step that the caller or another thread could see.
\* get is one step.  The scheduler lets a thread that can release the lock
\* do so.
L_Put(key, value) ==
    LET r == put(St, key, value) IN
    /\ ~spin_lock
    /\ value \in PutValues(lookup(St, key))
    /\ r.st.global_epoch <= MaxEpoch
    /\ Store(r.st)
    /\ spin_lock' = TRUE
    /\ WrSet(1, [IdleWriter EXCEPT !.pc = IF r.loops THEN "spin" ELSE "ret",
                                   !.key = key, !.value = value])
    /\ UNCHANGED <<rd, shadow, recency, last_evict, cache, pool, strict, mpsc>>

L_Release ==
    /\ wr[1].pc = "ret"
    /\ spin_lock' = FALSE
    /\ WrSet(1, IdleWriter)
    /\ UNCHANGED <<mapvars, heap, retired, global_epoch, active_epoch, rings,
                   dirty_mask, rd, histvars>>

L_Get(key) ==
    /\ ~spin_lock
    /\ Store(get(St, 0, key).st)
    /\ UNCHANGED <<spin_lock, rd, wr, shadow, recency, last_evict, cache, pool, strict, mpsc>>

NextLive ==
    \/ \E k \in Keys, v \in Values : L_Put(k, v)
    \/ L_Release
    \/ \E k \in Keys : L_Get(k)

SpecLive == Init /\ [][NextLive]_vars /\ WF_vars(L_Release)

\* SpecT: a thread that puts and gets, one operation at a time and each of
\* them step by step (its puts are those of writer PutterOfReader), next to
\* writer 1.  The keys: one the shard holds at the start and one that
\* collides with it.
PutterOfReader == NumWriters

KeysT == {0, TableSize}

InitT ==
    /\ rd = [IdleReader EXCEPT !.own = PutterOfReader]
    /\ wr = [w \in Writers |-> IdleWriter]
    /\ spin_lock = FALSE
    /\ Boot(WarmUp(InitSt, Capacity))
    /\ shadow = [k \in Keys |-> [v |-> IF k < Capacity THEN 1 ELSE 0,
                                 was_evicted |-> FALSE]]
    /\ recency = <<>>
    /\ last_evict = NoEviction
    /\ cache = InitCache
    /\ pool = InitPool("Slow", 0)
    /\ strict = <<>>
    /\ mpsc = InitMpsc

NextT ==
    \/ rd.pc = "idle" /\ Writer(PutterOfReader, KeysT, MaxEpochT)
    \/ wr[PutterOfReader].pc = "idle" /\ ReaderOn(KeysT)
    \/ Writer(1, KeysT, MaxEpochT)

SpecT == InitT /\ [][NextT]_vars

\* SpecX: more reader threads than MaxThreads.  get_thread_id hands the id
\* of the reader to a second reader thread as well, so the two share an
\* epoch slot and a trace ring.  The first reader and the writer go step by
\* step; the gets of the second reader fall between their steps and
\* between the lock sections of the writer.
NextX ==
    \/ ReaderOn(KeysT)
    \/ \E k \in KeysT : Get(k, FALSE)
    \/ Writer(1, KeysT, MaxEpochC)

SpecX == InitC /\ [][NextX]_vars

\* SpecR: the reader and one writer, step by step, on a shard whose
\* retirement list is about to reach the threshold of put: the reader has
\* called get(0) on the new shard and has stored its stamp, and meanwhile the
\* writer has put key 1 once and then key 0 RetiredThreshold times, with
\* alternating values, which leaves RetiredThreshold - 1 values retired.
\* The shard after the puts number a + 1 .. b of the writer, from shard S.
RECURSIVE WarmR(_, _, _)
WarmR(S, a, b) ==
    IF a >= b THEN S
    ELSE IF b = a + 1 THEN put_alone(S, IF b = 1 THEN 1 ELSE 0, 1 + (b % 2))
    ELSE LET M == WarmR(S, a, (a + b) \div 2) IN
         IF M.global_epoch > 0 THEN WarmR(M, (a + b) \div 2, b) ELSE M

MaxEpochR == RetiredThreshold + 2 + PutsR

InitR ==
    /\ rd = [IdleReader EXCEPT !.pc = "gen1", !.idx = calculate_hash_idx(0)]
    /\ wr = [w \in Writers |-> IdleWriter]
    /\ spin_lock = FALSE
    /\ Boot(WarmR(enter_epoch(InitSt, ReaderTid), 0, RetiredThreshold + 1))
    /\ shadow = [k \in Keys |-> [v |-> IF k = 0 THEN 1 + ((RetiredThreshold + 1) % 2)
                                       ELSE IF k = 1 THEN 2 ELSE 0,
                                 was_evicted |-> FALSE]]
    /\ recency = <<>>
    /\ last_evict = NoEviction
    /\ cache = InitCache
    /\ pool = InitPool("Slow", 0)
    /\ strict = <<>>
    /\ mpsc = InitMpsc

NextR == ReaderOn(KeysT) \/ Writer(1, KeysT, MaxEpochR)

SpecR == InitR /\ [][NextR]_vars

\* ------------------------------------------- the epoch manager on its own
\* SpecEpoch: an EpochManager of EpochThreads slots and its threads: each
\* enters and leaves its epoch, and the epoch is bumped.
EpochTids == 0 .. (EpochThreads - 1)

InitE ==
    /\ rd = IdleReader
    /\ wr = [w \in Writers |-> IdleWriter]
    /\ spin_lock = FALSE
    /\ Boot([InitSt EXCEPT !.active_epoch = [t \in EpochTids |-> 0]])
    /\ shadow = [k \in Keys |-> [v |-> 0, was_evicted |-> FALSE]]
    /\ recency = <<>>
    /\ last_evict = NoEviction
    /\ cache = InitCache
    /\ pool = InitPool("Slow", 0)
    /\ strict = <<>>
    /\ mpsc = InitMpsc

EpochFrame == UNCHANGED <<mapvars, heap, retired, rings, dirty_mask, spin_lock,
                          rd, wr, histvars>>

E_Enter(t) ==
    /\ active_epoch[t] = 0
    /\ active_epoch' = enter_epoch(St, t).active_epoch
    /\ UNCHANGED global_epoch
    /\ EpochFrame

E_Leave(t) ==
    /\ active_epoch[t] # 0
    /\ active_epoch' = leave_epoch(St, t).active_epoch
    /\ UNCHANGED global_epoch
    /\ EpochFrame

E_Bump ==
    /\ global_epoch < MaxEpochE
    /\ global_epoch' = bump_epoch(St).global_epoch
    /\ UNCHANGED active_epoch
    /\ EpochFrame

NextE ==
    \/ \E t \in EpochTids : E_Enter(t)
    \/ \E t \in EpochTids : E_Leave(t)
    \/ E_Bump

SpecEpoch == InitE /\ [][NextE]_vars

\* ------------------------------------------- the trace ring on its own
\* SpecRing: the ring of thread 0 with its producer and its consumer, each
\* call of push and pop one step, taken at the moment the call reads (or
\* would re-read) the other side's index.  The traces name a slot and an
\* even gen.
RingValues == [idx : Slots, gen : {0, 2}]

RingPush(value) ==
    /\ rings' = [rings EXCEPT ![0] = push(rings[0], value).ring]
    /\ UNCHANGED <<mapvars, heap, retired, global_epoch, active_epoch,
                   dirty_mask, spin_lock, rd, wr, histvars>>

RingPop ==
    /\ rings' = [rings EXCEPT ![0] = pop(rings[0]).ring]
    /\ UNCHANGED <<mapvars, heap, retired, global_epoch, active_epoch,
                   dirty_mask, spin_lock, rd, wr, histvars>>

NextRing ==
    \/ \E v \in RingValues : RingPush(v)
    \/ RingPop

SpecRing == Init /\ [][NextRing]_vars

\* --------------------------------------- run_test: the ring between threads
\* SpecPool: the producer and the consumer of run_test on one ring, one
\* step per access to the memory the two threads share (head, tail, the
\* buffer).  increment of the ring under test.
pool_increment(i) == (i + 1) % PoolCapacity

\* The threads do nothing to the shard.
PoolFrame == UNCHANGED <<mapvars, engvars, rd, wr, shadow, recency, last_evict,
                         uaf, cache, strict, mpsc>>

\* push up to the decision: the producer loads its own tail and compares
\* with head (Slow, Fast), or with head_cache, which it reloads from head
\* when the copy predicts a full ring (UltraFast).  A push that returns
\* false is called again.
P_Check ==
    LET hc == IF pool.variant # "UltraFast"
                 \/ pool_increment(pool.tail) = pool.head_cache
              THEN pool.head ELSE pool.head_cache
    IN
    /\ pool.producer.pc = "push"
    /\ pool' = [pool EXCEPT
                   !.head_cache = IF pool.variant = "UltraFast" THEN hc ELSE @,
                   !.producer.pc = IF pool_increment(pool.tail) = hc
                                   THEN "push" ELSE "write"]
    /\ PoolFrame

\* Variant: push publishes the new tail before it writes the payload (and
\* the payload is still to come).
P_Write_published ==
    /\ pool.producer.pc = "write"
    /\ pool' = [pool EXCEPT !.tail = pool_increment(@), !.producer.pc = "late"]
    /\ PoolFrame

\* buffer[curr_t] = val; the value pushed is the loop counter.
P_Write ==
    /\ pool.producer.pc = "write"
    /\ pool' = [pool EXCEPT
                   !.buffer[pool.tail] = [v |-> pool.producer.i, written |-> TRUE],
                   !.producer.pc = "publish"]
    /\ PoolFrame

\* The producer's loop goes on to the next item or ends.
next_item(t, pc) ==
    [t EXCEPT !.i = @ + 1, !.pc = IF t.i + 1 = Iterations THEN "done" ELSE pc]

\* tail.store(next, release); push returns true.
P_Publish ==
    /\ pool.producer.pc = "publish"
    /\ pool' = [pool EXCEPT !.tail = pool_increment(@),
                            !.producer = next_item(@, "push")]
    /\ PoolFrame

\* pop up to the decision: the consumer loads its own head and compares
\* with tail (Slow, Fast), or with tail_cache, which it reloads from tail
\* when the copy predicts an empty ring (UltraFast).  A pop that returns
\* false is called again.
C_Check ==
    LET tc == IF pool.variant # "UltraFast" \/ pool.head = pool.tail_cache
              THEN pool.tail ELSE pool.tail_cache
    IN
    /\ pool.consumer.pc = "pop"
    /\ pool' = [pool EXCEPT
                   !.tail_cache = IF pool.variant = "UltraFast" THEN tc ELSE @,
                   !.consumer.pc = IF pool.head = tc THEN "pop" ELSE "read"]
    /\ PoolFrame

\* val = buffer[curr_h].
C_Read ==
    /\ pool.consumer.pc = "read"
    /\ pool' = [pool EXCEPT
                   !.consumer.val = pool.buffer[pool.head].v,
                   !.consumer.pc = "publish",
                   !.raw = @ \/ ~pool.buffer[pool.head].written]
    /\ PoolFrame

\* Variant: pop returns its value and leaves head where it was.
C_Publish_keeps_head ==
    /\ pool.consumer.pc = "publish"
    /\ pool' = [pool EXCEPT !.popped = Append(@, pool.consumer.val),
                            !.consumer = next_item(@, "pop")]
    /\ PoolFrame

\* head.store(increment(curr_h), release); pop returns true.
C_Publish ==
    /\ pool.consumer.pc = "publish"
    /\ pool' = [pool EXCEPT !.head = pool_increment(@),
                            !.popped = Append(@, pool.consumer.val),
                            !.consumer = next_item(@, "pop")]
    /\ PoolFrame

Producer == P_Check \/ P_Write \/ P_Publish

Consumer == C_Check \/ C_Read \/ C_Publish

\* What the uninitialised arrays may hold.
Fills == {0, Iterations - 1}

InitRun ==
    /\ rd = IdleReader
    /\ wr = [w \in Writers |-> IdleWriter]
    /\ spin_lock = FALSE
    /\ Boot(InitSt)
    /\ shadow = [k \in Keys |-> [v |-> 0, was_evicted |-> FALSE]]
    /\ recency = <<>>
    /\ last_evict = NoEviction
    /\ cache = InitCache
    /\ pool \in {InitPool(v, f) : v \in Variants, f \in Fills}
    /\ strict = <<>>
    /\ mpsc = InitMpsc

NextPool == Producer \/ Consumer

SpecPool == InitRun /\ [][NextPool]_vars

\* SpecPoolFair: the same under a scheduler that lets each of the two
\* threads run again and again.
SpecPoolFair == SpecPool /\ WF_vars(Producer) /\ WF_vars(Consumer)

\* ------------------------------------------------------- Lv3_ShardedCache
\* Variant: the shard is taken from the bits above the low ones.
get_shard_idx_high(key) == (key \div ShardsCount) % ShardsCount

\* std::hash of an integer key is the identity; Mask = ShardsCount - 1.
get_shard_idx(key) == key % ShardsCount

\* get_thread_id: the first call of a thread draws its id from the counter
\* that all shards share.  [cache, id].
get_thread_id(C, t) ==
    IF C.th[t].id # -1 THEN [cache |-> C, id |-> C.th[t].id]
    ELSE [cache |-> [C EXCEPT !.counter = @ + 1,
                              !.th[t].id = C.counter % MaxThreads],
          id |-> C.counter % MaxThreads]

\* Variant: spin_wait returns only when no shard is locked.
may_lock_all(C, i) == \A j \in ShardIds : ~C.shards[j].lock

\* spin_wait on the lock of shard i returns.
may_lock(C, i) == ~C.shards[i].lock

\* get(key) of thread t, forwarded to the key's shard; it runs between the
\* lock sections of the puts on that shard.
S_Get(t, key) ==
    LET i == get_shard_idx(key)
        c == get_thread_id(cache, t)
        r == get(c.cache.shards[i].st, c.id, key)
    IN
    /\ cache.th[t].pc = "idle"
    /\ ~cache.shards[i].lock
    /\ cache' = [c.cache EXCEPT !.shards[i].st = r.st]
    /\ UNCHANGED shardvars

\* put(key, value) of thread t, forwarded to the key's shard: spin_wait
\* returns and the thread is inside put's lock sections.
S_PutBegin(t, key, value) ==
    LET i == get_shard_idx(key)
        S == cache.shards[i].st
        res == lookup(S, key)
    IN
    /\ cache.th[t].pc = "idle"
    /\ may_lock(cache, i)
    /\ value \in PutValues(res)
    /\ res.loops \/ is_quiet(S, res, value) \/ S.global_epoch < MaxEpochS
    /\ cache' = [cache EXCEPT !.shards[i].lock = TRUE,
                              !.th[t].pc = "put", !.th[t].key = key,
                              !.th[t].value = value]
    /\ UNCHANGED shardvars

\* The put returns and releases the lock, or spins in a probe for ever.
S_PutEnd(t) ==
    LET me == cache.th[t]
        i == get_shard_idx(me.key)
        r == put(cache.shards[i].st, me.key, me.value)
    IN
    /\ me.pc = "put"
    /\ cache' = IF r.loops
                THEN [cache EXCEPT !.shards[i].st = r.st, !.th[t].pc = "spin"]
                ELSE [cache EXCEPT !.shards[i] = [st |-> r.st, lock |-> FALSE],
                                   !.th[t].pc = "idle", !.th[t].key = 0,
                                   !.th[t].value = 0]
    /\ UNCHANGED shardvars

\* The cache after one thread has filled every shard: it has put the
\* first Capacity keys of each shard, each with the value 1.
RECURSIVE WarmShard(_, _)
WarmShard(i, n) ==
    IF n = 0 THEN InitSt
    ELSE put_alone(WarmShard(i, n - 1), i + (n - 1) * ShardsCount, 1)

InitS ==
    /\ rd = IdleReader
    /\ wr = [w \in Writers |-> IdleWriter]
    /\ spin_lock = FALSE
    /\ Boot(InitSt)
    /\ shadow = [k \in Keys |-> [v |-> 0, was_evicted |-> FALSE]]
    /\ recency = <<>>
    /\ last_evict = NoEviction
    /\ cache = [InitCache EXCEPT
                    !.shards = [i \in ShardIds |->
                                   [st |-> WarmShard(i, Capacity), lock |-> FALSE]]]
    /\ pool = InitPool("Slow", 0)
    /\ strict = <<>>
    /\ mpsc = InitMpsc

\* SpecS: the threads' gets and puts on the sharded cache.
NextS ==
    \/ \E t \in Threads, k \in Keys : S_Get(t, k)
    \/ \E t \in Threads, k \in Keys, v \in Values : S_PutBegin(t, k, v)
    \/ \E t \in Threads : S_PutEnd(t)

SpecS == InitS /\ [][NextS]_vars

\* ============================================================ properties
OccupiedSlots == {s \in Slots : meta[s].state = Occupied}

EmptySlots == {s \in Slots : meta[s].state = Empty}

\* The slots reached from head by next links (at most TableSize + 1 of them,
\* so that a cycle shows as a chain that is too long).
RECURSIVE ChainFrom(_, _)
ChainFrom(idx, n) ==
    IF idx = NullIdx \/ n = 0 THEN <<>>
    ELSE <<idx>> \o ChainFrom(meta[idx].next, n - 1)

Chain == ChainFrom(head, TableSize + 1)

\* No put is in progress: the lock is free and every writer is idle.
Quiescent == ~spin_lock /\ \A w \in Writers : wr[w].pc = "idle"

\* C1: whenever no put is in progress, exactly `size` slots are Occupied, the
\* chain from head along next visits every Occupied slot exactly once and
\* ends at tail, prev mirrors next, and size <= Capacity.
C1_ChainVisitsOccupied ==
    Quiescent =>
        /\ Cardinality(OccupiedSlots) = size
        /\ size <= Capacity
        /\ Len(Chain) = size
        /\ {Chain[i] : i \in 1 .. Len(Chain)} = OccupiedSlots
        /\ (Chain = <<>> => head = NullIdx /\ tail = NullIdx)
        /\ (Chain # <<>> => /\ Chain[Len(Chain)] = tail
                            /\ meta[head].prev = NullIdx)
        /\ \A i \in 1 .. (Len(Chain) - 1) : meta[Chain[i + 1]].prev = Chain[i]

\* C2: every shard holds at most Capacity Occupied slots and size <= Capacity,
\* in every reachable state.
C2_SizeWithinCapacity ==
    /\ size <= Capacity
    /\ Cardinality(OccupiedSlots) <= Capacity

\* C2, its case: the shard is full and a put has evicted a key.
C2_FullAfterEviction ==
    /\ size = Capacity
    /\ \E s \in Slots : meta[s].state = Deleted

\* C3: every eviction removes the least recently accessed key among those
\* present (accesses: put of the key, get hit on the key).
C3_EvictsLeastRecent == last_evict.victim = last_evict.lru

\* C4: lookup and assign_slot terminate for every key in every reachable
\* table state.
C4_ProbesTerminate ==
    \A k \in Keys : ~lookup(St, k).loops /\ ~assign_slot(St, k).loops

\* C5: at least Capacity of the 2 * Capacity slots are Empty in every
\* reachable state.
C5_HalfTheSlotsEmpty == Cardinality(EmptySlots) >= Capacity

\* The value get(k) returns when no put is in progress (0: null).
GetValue(k) ==
    LET r == get_lockless(St, k)
    IN IF r.ptr = NullPtr THEN 0 ELSE heap[r.ptr].v

\* C7: when no put is in progress, get(k) returns the value of the last
\* put(k, .) for every key put and not evicted since, and null for every
\* other key.
C7_GetReturnsLastPut ==
    Quiescent => \A k \in Keys : GetValue(k) = shadow[k].v

\* C7, its case: get finds a key that was put again after its eviction, in a
\* slot that has been a tombstone (re-used: its gen counts three mutations),
\* and get finds a key behind a tombstone on its probe path.
C7_FoundAmongTombstones ==
    /\ Quiescent
    /\ \E k \in Keys :
          LET r == get_lockless(St, k) IN
          /\ shadow[k].was_evicted
          /\ r.ptr # NullPtr
          /\ heap[r.ptr].v = shadow[k].v
          /\ r.gen >= 6
    /\ \E k \in Keys :
          LET r == get_lockless(St, k) IN
          /\ r.ptr # NullPtr
          /\ heap[r.ptr].v = shadow[k].v
          /\ r.idx # calculate_hash_idx(k)
          /\ meta[calculate_hash_idx(k)].state = Deleted

\* C6: at every instant at most one Occupied slot holds a given key, also
\* when several writers put the same absent key at once: one of them inserts
\* and the others update.
C6_KeyUnique ==
    \A s1 \in Slots, s2 \in Slots :
        (s1 # s2 /\ meta[s1].state = Occupied /\ meta[s2].state = Occupied)
            => meta[s1].key # meta[s2].key

\* C6, its case: a writer whose first lookup found the key absent finds it
\* present under the second lock, put there meanwhile by another writer
\* whose first lookup found it absent too, and updates it.
C6_SecondWriterUpdates ==
    \E w \in Writers :
        /\ wr[w].pc \in {"u_gen1", "u_out", "u_in", "u_gen2"}
        /\ wr[w].res_ptr = NullPtr
        /\ meta[wr[w].idx].key = wr[w].key

\* The reader has passed the second load of gen: get_lockless has succeeded.
ReadSucceeded == rd.pc \in {"push", "test", "set", "leave"} /\ rd.ptr # NullPtr

\* C8: a lockless read succeeds only with the same even gen before and after
\* the copy of the handle: the handle it returns is whole (element pointer
\* and control block of one object), it is the handle the slot held when the
\* first gen was loaded, and it is never taken from a slot in mid-write.
C8_ReadIsStable ==
    rd.pc = "push" =>
        /\ rd.gen1 % 2 = 0
        /\ rd.ptr # NullPtr
        /\ rd.ptr = rd.ctrl
        /\ rd.ptr = rd.snap
        /\ heap[rd.ptr].rc > 0
        /\ heap[rd.ptr].v \in Values

\* C8, its case: the read has returned the value of the writer's first put
\* to the key (the shard starts with the value 1), and the writer's next put
\* has written to the slot since the reader's first load of gen.
C8_ReadBetweenTwoPuts ==
    /\ rd.pc = "push"
    /\ heap[rd.ptr].v = 2
    /\ meta[rd.idx].gen # rd.gen1
    /\ meta[rd.idx].key = rd.key

\* C9: every non-null result of get(k) is an object that a put(k, .) made
\* for the key k, also when k's slot is evicted and used again for another
\* key during the read.
C9_ValueOfTheKey ==
    /\ ReadSucceeded => heap[rd.ptr].k = rd.key
    /\ rd.ret_ptr # NullPtr => rd.seen.k = rd.key

\* C9, its case: the reader has found its key in a slot and copied the
\* slot's handle, the slot has been evicted and used again meanwhile, and
\* the copy is the value of the other key.
C9_CopiedAfterReuse ==
    /\ rd.pc = "gen2"
    /\ rd.ctrl # NullPtr
    /\ heap[rd.ctrl].rc > 0
    /\ heap[rd.ctrl].k # rd.key
    /\ meta[rd.idx].state = Occupied

\* The handles to the object p: in the slots, in the retirement list, in
\* the reader (from the increment of the use count on) and in the writers.
Owners(p) ==
    Cardinality({s \in Slots : data[s] = p})
    + Cardinality({i \in 1 .. Len(retired) : retired[i].ptr = p})
    + (IF rd.ctrl = p /\ rd.pc \in {"gen2", "push", "test", "set", "leave"}
       THEN 1 ELSE 0)
    + (IF rd.ret_ctrl = p THEN 1 ELSE 0)
    + Cardinality({w \in Writers : wr[w].res_ptr = p})
    + Cardinality({w \in Writers : wr[w].new_ptr = p})
    + Cardinality({w \in Writers : wr[w].old = p})

\* C10: a handle that get has returned stays readable and shows the same
\* value for as long as the reader holds it, whatever the later puts do to
\* the key and its slot; an object lives exactly as long as a slot, the
\* retirement list, a reader or a writer has a handle to it, and no use
\* count is touched after its object has been destroyed.
C10_HandleKeepsValue ==
    /\ ~uaf
    /\ \A p \in 1 .. Len(heap) : heap[p].rc = Owners(p)
    /\ rd.ret_ptr # NullPtr =>
          /\ rd.ret_ctrl = rd.ret_ptr
          /\ heap[rd.ret_ptr].rc > 0
          /\ heap[rd.ret_ptr].k = rd.seen.k
          /\ heap[rd.ret_ptr].v = rd.seen.v

\* C10, its case: the reader holds a handle, its key has been evicted and
\* the slot the handle came from holds another key now.
C10_HeldAcrossReuse ==
    /\ rd.ret_ptr # NullPtr
    /\ meta[rd.seen.idx].state = Occupied
    /\ meta[rd.seen.idx].gen % 2 = 0
    /\ meta[rd.seen.idx].key # rd.seen.k
    /\ \A s \in Slots : data[s] # rd.ret_ptr

\* The entries of the retirement list.
RetiredEntries == {retired[i] : i \in 1 .. Len(retired)}

\* The nonzero stamps in the readers' epoch slots.
Stamps == {active_epoch[t] : t \in Tids} \ {0}

\* C11: an entry leaves the retirement list only in a step in which every
\* nonzero reader stamp is greater than the entry's epoch, and an entry that
\* joins the list while readers have their stamps in their slots is not
\* older than any of these stamps: no value is released while a reader that
\* had entered its epoch before the value left its slot is inside get.
C11_ReleasedAfterReaders ==
    [][ /\ \A o \in RetiredEntries :
              o \notin {retired'[i] : i \in 1 .. Len(retired')}
                  => /\ o.epoch < global_epoch
                     /\ \A e \in Stamps : e > o.epoch
        /\ \A i \in 1 .. Len(retired') :
              retired'[i] \notin RetiredEntries
                  => \A e \in Stamps : e <= retired'[i].epoch ]_vars

\* C11, its case: cleanup_retired has run, and has left on the list an
\* entry from an earlier epoch because the reader's stamp is not above it.
C11_KeptForReader ==
    \E w \in Writers :
        /\ wr[w].cleaned
        /\ wr[w].pc \in {"u_gen1", "e_gen1"}
        /\ \E o \in RetiredEntries :
              /\ o.epoch < global_epoch
              /\ \E e \in Stamps : e <= o.epoch

\* C12: a non-null result of get(k) is never an object that held k before a
\* put of the same thread for k returned: it is the value of that put or
\* one stored for k after it.
C12_ReadsOwnWrite ==
    (rd.pc \in {"push", "test", "set", "leave"} /\ rd.ptr # NullPtr)
        => rd.ptr \notin rd.stale

\* C12, its case: the thread has put a key, an earlier value of the key is
\* still alive, and the thread's get of the key returns an object.
C12_ReadAfterOwnPut ==
    /\ rd.pc = "leave"
    /\ rd.ptr # NullPtr
    /\ \E p \in rd.stale : heap[p].rc > 0 /\ heap[p].k = rd.key

\* C13: in every step in which the thread's put(k, v) returns, a second
\* put(k, v) from the state reached would take the quiet path and leave the
\* shard as it is: head, tail and links, size, generations, global epoch,
\* retirement list and heap.
C13_SecondPutChangesNothing ==
    [][ \A k \in Keys, v \in Values :
            (PutQuiet(k, v, FALSE) \/ PutSlow(k, v, MaxEpoch, FALSE))
                => /\ is_quiet(St', lookup(St', k), v)
                   /\ put(St', k, v) = [st |-> St', loops |-> FALSE] ]_vars

\* C13, its case: a put has just stored a value by the slow path into a
\* full shard whose retirement list is not empty, so that a second put
\* that took the slow path would change each of them.
C13_PutIntoFullShard ==
    /\ size = Capacity
    /\ retired # <<>>
    /\ head # NullIdx
    /\ meta[head].state = Occupied
    /\ retired[Len(retired)].epoch = global_epoch
    /\ shadow[meta[head].key].v = heap[data[head]].v

\* The shard after put(1,a); put(2,b); put(1,c) on an empty shard, with
\* a = b = 1 and c = 2; then after get(2); after put(3,d), d = 1; after the
\* second get(2).
AfterThreePuts == put(put(put(InitSt, 1, 1).st, 2, 1).st, 1, 2).st

AfterFirstGet == get(AfterThreePuts, 0, 2)

AfterFourthPut == put(AfterFirstGet.st, 3, 1)

AfterSecondGet == get(AfterFourthPut.st, 0, 2)

KeysHeld(S) == {S.meta[s].key : s \in {x \in Slots : S.meta[x].state = Occupied}}

C15_KeyInItsShard ==
    \A i \in ShardIds :
        \A k \in KeysHeld(cache.shards[i].st) : k % ShardsCount = i

\* C15, its case: every shard holds a key, and a put has replaced or evicted
\* a value in one of them.
C15_AllShardsHold ==
    /\ \A i \in ShardIds : KeysHeld(cache.shards[i].st) # {}
    /\ \E i \in ShardIds : cache.shards[i].st.retired # <<>>

\* C16: a step of get(k) or put(k, v) leaves every shard but the one of k
\* as it is, lock included, and spin_wait on a shard's lock returns
\* whenever that lock is free, whatever the other locks are.
C16_OtherShardsUntouched ==
    [][ /\ \A t \in Threads, k \in Keys :
              (\/ S_Get(t, k)
               \/ \E v \in Values : S_PutBegin(t, k, v)
               \/ cache.th[t].pc = "put" /\ cache.th[t].key = k /\ S_PutEnd(t))
                  => \A j \in ShardIds \ {k % ShardsCount} :
                         cache'.shards[j] = cache.shards[j]
        /\ \A i \in ShardIds : ~cache.shards[i].lock => may_lock(cache, i) ]_vars

\* C16, its case: two threads are inside put on two shards at once.
C16_TwoShardsLocked ==
    \E t, u \in Threads :
        /\ cache.th[t].pc = "put" /\ cache.th[u].pc = "put"
        /\ get_shard_idx(cache.th[t].key) # get_shard_idx(cache.th[u].key)

\* C17: under a fair scheduler every call returns: a thread that has entered
\* a lock section of put leaves it again, so the lock is free again and
\* again.
C17_EveryCallReturns == []<>(~spin_lock)

\* The reader is parked in gen.wait: the gen it found odd has not changed.
Parked == rd.pc = "wait" /\ meta[rd.idx].gen = rd.gen1

\* C18: while a thread holds the lock, the reader can take its next step,
\* the first step of a new get included, and that step leaves the lock as
\* it is; the one exception is the reader parked on an odd gen.
C18_GetIgnoresLock ==
    spin_lock => (Parked \/ ENABLED (Reader /\ spin_lock' = spin_lock))

\* C18, its case: get returns the value of a key while a writer holds the
\* lock and is about to replace that value.
C18_ReturnsUnderLock ==
    /\ spin_lock
    /\ rd.pc = "leave" /\ rd.ptr # NullPtr
    /\ \E w \in Writers : wr[w].pc = "u_gen1" /\ wr[w].key = rd.key

\* The writers inside a lock section of put: past a spin_wait and before the
\* release_lock that follows it.
InSection == {w \in Writers : wr[w].pc \notin {"idle", "lock2"}}

\* C19: at most one writer is inside a lock section of put, and the lock is
\* set exactly while one is: a put that has returned, or that is between
\* its two sections, has released it.
C19_OneWriterInSection ==
    /\ Cardinality(InSection) <= 1
    /\ spin_lock <=> InSection # {}

\* C19, its case: a writer is inside the section, between two stores to a
\* slot, while another has allocated its object and waits in spin_wait.
C19_OneInsideOneWaiting ==
    \E w, x \in Writers :
        /\ wr[w].pc \in {"u_in", "e_val", "x_val"}
        /\ wr[x].pc = "lock2"

\* C20: in every state of the ring, push fails exactly when the ring is
\* full (the slot after tail is head) and pop fails exactly when it is
\* empty (head is tail), whatever the cached indices say; a call that fails
\* leaves the ring as it is, and a push that succeeds writes only the slot
\* at tail.
C20_FailsExactlyWhenFullOrEmpty ==
    LET R == rings[0]
        q == pop(R)
    IN /\ q.ok <=> R.head # R.tail
       /\ ~q.ok => q.ring = R
       /\ \A v \in RingValues :
             LET p == push(R, v) IN
             /\ p.ok <=> increment(R, R.tail) # R.head
             /\ ~p.ok => p.ring = R
             /\ \A i \in DOMAIN R.buffer :
                   i # R.tail => p.ring.buffer[i] = R.buffer[i]

\* C20, its case: after pushes and pops the producer's cached head is stale
\* and predicts a full ring while the ring has room.
C20_StaleCaches ==
    LET R == rings[0] IN
    /\ increment(R, R.tail) = R.head_cache
    /\ increment(R, R.tail) # R.head
    /\ \E i \in DOMAIN R.buffer : R.buffer[i] # EmptyRing.buffer[i]

\* C21: in run_test, under any interleaving of the steps of the producer
\* and the consumer, the values the successful pops have returned are the
\* first of the values the successful pushes have accepted, in the same
\* order (the pushes accept 0, 1, 2, ...), and no pop has read a cell of the
\* buffer that no push had written.
C21_PopsArePrefixOfPushes ==
    /\ ~pool.raw
    /\ Len(pool.popped) <= pool.producer.i
    /\ \A j \in 1 .. Len(pool.popped) : pool.popped[j] = j - 1

\* C21, its case: an UltraFast ring whose cells have all been used and are
\* in use a second time, the consumer having popped more values than the
\* buffer has cells.
C21_RingWrapped ==
    /\ pool.variant = "UltraFast"
    /\ Len(pool.popped) > PoolCapacity
    /\ pool.producer.pc = "done"

\* The ring accepts no push: the next tail is head.
PoolFull == pool_increment(pool.tail) = pool.head

\* The ring delivers no pop: head is tail.
PoolEmpty == pool.head = pool.tail

AllDone == pool.producer.pc = "done" /\ pool.consumer.pc = "done"

\* C22: for each of the three rings, when the scheduler is fair to both
\* threads of run_test, the producer ends after Iterations successful pushes
\* and the consumer after as many successful pops; and the ring is never
\* full and empty at once.
C22_BothThreadsTerminate == [](~(PoolFull /\ PoolEmpty)) /\ <>[]AllDone

\* C22, its case: the ring is full before the consumer has popped anything,
\* so the producer's push fails until a pop has succeeded.
C22_ProducerWaits ==
    /\ PoolFull
    /\ pool.producer.pc = "push"
    /\ pool.consumer.i = 0
    /\ pool.consumer.pc = "pop"

\* A slow-path put of writer w returns in this step.
PutFinishes(w) == wr[w].pc \in {"u_gen2", "e_gen2"} /\ wr'[w].pc = "idle"

C24_FailedPutChangesNothing ==
    [][\A w \in Writers :
          (wr[w].pc = "idle" /\ wr'[w].pc = "threw")
              => /\ St' = St
                 /\ ~spin_lock'
                 /\ \A x \in Writers \ {w} : wr'[x] = wr[x]
      ]_vars

\* C24, its case: a put for a key that the shard holds has failed with
\* the exception while the retirement list holds a value and another thread
\* is between the two lock sections of its put.
C24_ThrownOnUpdate ==
    \E w \in Writers :
        /\ wr[w].pc = "threw"
        /\ retired # <<>>
        /\ lookup(St, wr[w].key).ptr # NullPtr
        /\ wr[1].pc = "lock2"

\* C25: two reader threads that share a thread id leave the shard safe:
\* the size stays within Capacity, no key is in two Occupied slots, a handle
\* that get has returned refers to a live value, and no get touches the
\* reference count of a value that has been released.
C25_CollisionsTolerated ==
    /\ size <= Capacity
    /\ \A s1 \in Slots, s2 \in Slots :
          (s1 # s2 /\ meta[s1].state = Occupied /\ meta[s2].state = Occupied)
              => meta[s1].key # meta[s2].key
    /\ rd.ret_ptr # NullPtr => heap[rd.ret_ptr].rc > 0
    /\ ~uaf

\* The nonzero stamps of all the epoch slots.
AllStamps == {active_epoch[t] : t \in DOMAIN active_epoch} \ {0}

\* C26: get_min_active returns the smallest nonzero stamp of the epoch
\* slots, and the global epoch when every slot holds 0; the result is never
\* 0 and never above the global epoch.
C26_MinActive ==
    /\ get_min_active(St) =
           IF AllStamps = {} THEN global_epoch
           ELSE CHOOSE m \in AllStamps : \A e \in AllStamps : m <= e
    /\ get_min_active(St) # 0
    /\ get_min_active(St) <= global_epoch

\* C26, its case: an empty slot, and two stamps that differ and are both
\* older than the global epoch, the older of them in the later slot.
C26_TwoStampsAndAGap ==
    \E t1 \in DOMAIN active_epoch, t2 \in DOMAIN active_epoch :
        /\ t1 < t2
        /\ 0 < active_epoch[t2]
        /\ active_epoch[t2] < active_epoch[t1]
        /\ active_epoch[t1] < global_epoch
        /\ \E t0 \in DOMAIN active_epoch : active_epoch[t0] = 0

\* The positions of a writer before the first and before the last store of
\* update_slot, erase_index and emplace_at, and between the two.
AtGen1 == {"u_gen1", "x_gen1", "e_gen1"}
AtGen2 == {"u_gen2", "x_gen2", "e_gen2"}
InsideMutation == {"u_out", "u_in", "x_val", "x_state", "e_key", "e_val", "e_state"} \cup AtGen2

\* The writer w is inside a mutation of slot i, under the shard lock.
Mutating(w, i) == spin_lock /\ wr[w].pc \in InsideMutation /\ wr[w].idx = i

\* C27: a slot's gen is odd only while the lock holder is inside
\* update_slot, erase_index or emplace_at on that slot, so all gens are even
\* when no put is in progress; gen changes only by the two stores of such a
\* mutation, each of them adds 1 (2 for the mutation), and nothing else,
\* move_to_front included, changes a gen; gen never decreases.
C27_GenDiscipline ==
    /\ [](\A i \in Slots :
             meta[i].gen % 2 = 1 => \E w \in Writers : Mutating(w, i))
    /\ []((\A w \in Writers : wr[w].pc = "idle") =>
             \A i \in Slots : meta[i].gen % 2 = 0)
    /\ [][\A i \in Slots :
             /\ meta'[i].gen >= meta[i].gen
             /\ meta'[i].gen # meta[i].gen =>
                    /\ meta'[i].gen = meta[i].gen + 1
                    /\ \E w \in Writers :
                          /\ wr[w].idx = i
                          /\ wr[w].pc \in AtGen1 \cup AtGen2
                          /\ wr'[w].pc # wr[w].pc
                          /\ wr[w].pc \in AtGen1 <=> meta[i].gen % 2 = 0
             /\ \A w \in Writers :
                    (wr[w].idx = i /\ wr[w].pc \in AtGen1 \cup AtGen2
                                  /\ wr'[w] # wr[w])
                        => meta'[i].gen = meta[i].gen + 1]_vars

\* C27, its case: a writer is inside the second mutation of a slot (gen 3)
\* while the other writer's put waits for the lock.
C27_SecondMutationInProgress ==
    \E w \in Writers, x \in Writers :
        /\ wr[w].pc = "u_in"
        /\ meta[wr[w].idx].gen = 3
        /\ wr[x].pc = "lock2"

\* The lock holder w is at the store to the state of slot i in emplace_at
\* (pc "e_state") or erase_index (pc "x_state").
StoresState(w, i, pc) == spin_lock /\ wr[w].pc = pc /\ wr[w].idx = i

\* C28: every slot starts Empty; its state changes only from Empty to
\* Occupied and from Deleted to Occupied, by emplace_at, and from Occupied to
\* Deleted, by erase_index; update_slot works on an Occupied slot and leaves
\* it Occupied; no slot becomes Empty again; emplace_at is never applied to
\* an Occupied slot.
C28_SlotStateMachine ==
    /\ \A i \in Slots : meta[i].state = Empty
    /\ [](\A w \in Writers :
             /\ wr[w].pc \in {"e_gen1", "e_key", "e_val", "e_state"} =>
                    meta[wr[w].idx].state # Occupied
             /\ wr[w].pc \in {"u_gen1", "u_out", "u_in", "u_gen2"} =>
                    meta[wr[w].idx].state = Occupied)
    /\ [][\A i \in Slots :
             /\ meta'[i].state # Empty \/ meta[i].state = Empty
             /\ meta'[i].state # meta[i].state =>
                    \/ /\ meta[i].state \in {Empty, Deleted}
                       /\ meta'[i].state = Occupied
                       /\ \E w \in Writers : StoresState(w, i, "e_state")
                    \/ /\ meta[i].state = Occupied
                       /\ meta'[i].state = Deleted
                       /\ \E w \in Writers : StoresState(w, i, "x_state")
             /\ \A w \in Writers :
                    (wr[w].pc = "u_gen2" /\ wr[w].idx = i /\ wr'[w] # wr[w])
                        => meta'[i].state = Occupied]_vars

\* C28, its case: emplace_at is about to make a Deleted slot Occupied.
C28_TombstoneReused ==
    \E w \in Writers : wr[w].pc = "e_state" /\ meta[wr[w].idx].state = Deleted

\* The ring the draining writer w pops next, and the trace at its head.
DrainRing(w) == CHOOSE x \in wr[w].mask : \A y \in wr[w].mask : x <= y
DrainHead(w) == rings[DrainRing(w)].buffer[rings[DrainRing(w)].head]

\* The trace t names a slot that is Occupied with the gen of the trace.
StillValid(t) == meta[t.idx].state = Occupied /\ meta[t.idx].gen = t.gen

\* What a slot holds: state, key and value.
Content(m, d, i) == <<m[i].state, m[i].key, d[i]>>

\* C29: a pop of process_buffer that yields a trace (idx, g) makes slot idx
\* the head of the list when the slot is Occupied with gen g, and changes
\* nothing of the table otherwise; no pop changes what a slot holds.  A
\* trace is pushed with an even gen at which the slot held the key and the
\* value of the get; a slot's content changes only with its gen, and gen
\* never decreases: a trace whose gen still matches names the slot as the
\* get has found it.
C29_TraceHonouredIffValid ==
    /\ [][\A w \in Writers :
             (wr[w].pc = "drain" /\ wr[w].mask # {}) =>
                 /\ (rings'[DrainRing(w)].head # rings[DrainRing(w)].head
                         /\ StillValid(DrainHead(w)))
                        => /\ head' = DrainHead(w).idx
                           /\ <<meta', data', head', tail', size'>> =
                                 LET M == move_to_front(St, DrainHead(w).idx)
                                 IN <<M.meta, M.data, M.head, M.tail, M.size>>
                 /\ (\/ rings'[DrainRing(w)].head # rings[DrainRing(w)].head
                           /\ ~StillValid(DrainHead(w))
                     \/ wr'[w].mask # wr[w].mask)
                        => UNCHANGED mapvars
                 /\ wr'[w] = wr[w] /\ rings'[DrainRing(w)].head = rings[DrainRing(w)].head
                        => UNCHANGED mapvars
                 /\ \A i \in Slots :
                        /\ Content(meta', data', i) = Content(meta, data, i)
                        /\ meta'[i].gen = meta[i].gen]_vars
    /\ [](rd.pc = "push" =>
             /\ rd.gen1 % 2 = 0
             /\ meta[rd.idx].gen >= rd.gen1
             /\ meta[rd.idx].gen = rd.gen1 =>
                    Content(meta, data, rd.idx) = <<Occupied, rd.key, rd.ptr>>)
    /\ [][\A i \in Slots :
             /\ meta'[i].gen >= meta[i].gen
             /\ (meta'[i].gen = meta[i].gen /\ meta[i].gen % 2 = 0)
                    => Content(meta', data', i) = Content(meta, data, i)]_vars

\* C29, its case: the drain is about to pop a trace of a slot that is
\* Occupied and has been updated since the trace was pushed.
C29_StaleTraceAtHead ==
    \E w \in Writers :
        /\ wr[w].pc = "drain" /\ wr[w].mask # {}
        /\ rings[DrainRing(w)].head # rings[DrainRing(w)].tail
        /\ meta[DrainHead(w).idx].state = Occupied
        /\ meta[DrainHead(w).idx].gen > DrainHead(w).gen
        /\ head # DrainHead(w).idx

\* The trace ring of thread t holds a trace.
NonEmpty(t) == rings[t].head # rings[t].tail

\* C30: while no get is between its push and its update of the dirty mask
\* and no writer is in apply_updates, every trace ring that holds a trace
\* has its bit set in the dirty mask.
C30_NoStrandedTrace ==
    (rd.pc \notin {"test", "set"} /\ \A w \in Writers : wr[w].pc # "drain")
        => \A t \in Tids : NonEmpty(t) => t \in dirty_mask

\* C30, its case: the reader has pushed a trace and set its bit again after
\* a drain has cleared the mask and popped a trace, and the writer of that
\* drain is still inside its mutation.
C30_MarkedAgainAfterDrain ==
    /\ rd.pc = "leave"
    /\ NonEmpty(ReaderTid)
    /\ rings[ReaderTid].head # 0
    /\ ReaderTid \in dirty_mask
    /\ \E w \in Writers : wr[w].pc \in InsideMutation

\* C31: a slow-path put (the step that bumps the epoch) of a thread that
\* runs alone pops every trace of every ring whose bit it finds set: the
\* head of such a ring arrives at its tail, the ring is empty and the dirty
\* mask is empty afterwards; a slow-path put that finds the mask empty and a
\* quiet update (a step that relinks the list and does not bump the epoch)
\* leave the rings and the mask as they are.
C31_DrainComplete ==
    [][/\ (global_epoch' # global_epoch /\ dirty_mask # {}) =>
             /\ dirty_mask' = {}
             /\ \A t \in dirty_mask :
                    /\ rings'[t].head = rings[t].tail
                    /\ rings'[t].tail = rings[t].tail
                    /\ rings[t].head # rings[t].tail
             /\ \A t \in Tids \ dirty_mask : rings'[t] = rings[t]
       /\ (global_epoch' # global_epoch /\ dirty_mask = {}) =>
             UNCHANGED <<rings, dirty_mask>>
       /\ (global_epoch' = global_epoch /\ mapvars' # mapvars) =>
             UNCHANGED <<rings, dirty_mask>>]_vars

\* C31, its case: a put has drained the ring of the reader (the ring's head
\* has moved) and nothing has been recorded since.
C31_Drained ==
    /\ rings[ReaderTid].head # 0
    /\ rings[ReaderTid].head = rings[ReaderTid].tail
    /\ dirty_mask = {}
    /\ size = Capacity

\* C32: a step of get changes nothing of the table (no slot's state, key,
\* gen, value or links, not head, tail or size), nothing of the retirement
\* list, the global epoch or the lock, and nothing of another thread's epoch
\* slot, ring or bit; a step of get that writes to the ring or to the dirty
\* mask belongs to a get that has found its key, so a get that misses
\* writes its epoch slot only.
C32_GetLeavesTableUnchanged ==
    [][rd'.pc # rd.pc =>
          /\ UNCHANGED <<mapvars, retired, global_epoch, spin_lock>>
          /\ \A t \in DOMAIN active_epoch \ {ReaderTid} :
                 active_epoch'[t] = active_epoch[t] /\ rings'[t] = rings[t]
          /\ dirty_mask' \ {ReaderTid} = dirty_mask \ {ReaderTid}
          /\ (rings' # rings \/ dirty_mask' # dirty_mask) =>
                 /\ rd.pc \in {"push", "set"}
                 /\ rd.ptr # NullPtr
                 /\ rd'.ptr = rd.ptr
          /\ rd'.pc = "idle" =>
                 /\ active_epoch'[ReaderTid] = 0
                 /\ rd.ptr = NullPtr => UNCHANGED <<rings, dirty_mask>>]_vars

\* C32, its case: a get that has found its key, has pushed its trace and set
\* its bit is about to return, and no put is in progress.
C32_HitRecorded ==
    /\ rd.pc = "leave"
    /\ rd.ptr # NullPtr
    /\ NonEmpty(ReaderTid)
    /\ ReaderTid \in dirty_mask
    /\ head # rd.idx
    /\ \A w \in Writers : wr[w].pc = "idle"

\* The value the shard S holds for the key k it holds.
ValueOf(S, k) ==
    LET s == CHOOSE x \in Slots : S.meta[x].state = Occupied /\ S.meta[x].key = k
    IN S.heap[S.data[s]].v

\* The key at the tail of the list once the put that starts in the current
\* state has bumped the epoch and drained the rings.
TailKeyAfterDrain ==
    LET S1 == bump_epoch(St)
        S2 == IF S1.dirty_mask # {} THEN apply_updates(S1) ELSE S1
    IN S2.meta[S2.tail].key

\* C33: a slow-path put (the step that bumps the epoch) has a key k that the
\* shard holds afterwards; when the shard held k the key set and size stay;
\* when it did not and the shard was full, the key at the tail of the list
\* after the drain, and no other, leaves, and size stays; when it did not
\* and the shard was not full no key leaves and size grows by one.  The
\* values of the other keys that stay are unchanged.  A step that does not
\* bump the epoch (a quiet update, a get) changes no key, value or size.
C33_PutEffectOnKeys ==
    [][/\ global_epoch' # global_epoch =>
             \E k \in Keys :
                 /\ k \in KeysHeld(St')
                 /\ IF k \in KeysHeld(St)
                    THEN KeysHeld(St') = KeysHeld(St) /\ size' = size
                    ELSE IF size = Capacity
                    THEN /\ TailKeyAfterDrain \in KeysHeld(St)
                         /\ KeysHeld(St') = (KeysHeld(St) \ {TailKeyAfterDrain}) \cup {k}
                         /\ size' = size
                    ELSE KeysHeld(St') = KeysHeld(St) \cup {k} /\ size' = size + 1
                 /\ \A j \in (KeysHeld(St') \cap KeysHeld(St)) \ {k} :
                        ValueOf(St', j) = ValueOf(St, j)
       /\ global_epoch' = global_epoch =>
             /\ KeysHeld(St') = KeysHeld(St)
             /\ size' = size
             /\ \A j \in KeysHeld(St) : ValueOf(St', j) = ValueOf(St, j)]_vars

\* C33, its case: a put into a full shard has evicted a key after a drain
\* that has changed the tail: the shard is full, a key has been evicted, a
\* ring has been popped, and the key that stayed holds the value 2.
C33_EvictedAfterDrain ==
    /\ size = Capacity
    /\ \E k \in Keys : shadow[k].was_evicted /\ k \notin KeysHeld(St)
    /\ rings[ReaderTid].head # 0
    /\ \E k \in KeysHeld(St) : ValueOf(St, k) = 2
    /\ ~spin_lock

\* The slots of shard S reached from slot idx by next links, at most n.
RECURSIVE ChainOf(_, _, _)
ChainOf(S, idx, n) ==
    IF idx = NullIdx \/ n = 0 THEN <<>>
    ELSE <<idx>> \o ChainOf(S, S.meta[idx].next, n - 1)

\* What move_to_front(idx) has to do to shard S.
MovesToFront(S, idx) ==
    LET M == move_to_front(S, idx) IN
    /\ M.head = idx
    /\ Without(ChainOf(M, M.head, TableSize + 1), idx)
          = Without(ChainOf(S, S.head, TableSize + 1), idx)
    /\ \A i \in Slots :
          /\ M.meta[i].gen = S.meta[i].gen
          /\ M.meta[i].state = S.meta[i].state
          /\ M.meta[i].key = S.meta[i].key
          /\ M.data[i] = S.data[i]
    /\ M.size = S.size
    /\ S.head = idx => M = S
    /\ move_to_front(M, idx) = M

\* The shard after emplace_at has filled the slot that assign_slot gives to
\* the absent key k.
Emplaced(k) ==
    emplace_at(allocate_shared(St, k, 1), assign_slot(St, k).idx, k, fresh_id(St))

\* C34: move_to_front(idx) on an Occupied slot, a slot that emplace_at has
\* just filled included, makes idx the head, keeps the other slots of the
\* chain in the chain and in their order, changes no gen, state, key, value
\* or size, changes nothing when idx is the head, and does nothing more when
\* it is applied again.
C34_MoveToFront ==
    ~spin_lock =>
        /\ \A idx \in OccupiedSlots : MovesToFront(St, idx)
        /\ \A k \in Keys \ KeysHeld(St) :
              (size < Capacity /\ ~assign_slot(St, k).loops)
                  => MovesToFront(Emplaced(k), assign_slot(St, k).idx)

\* The entries a step appends to the retirement list, and the values that a
\* slot references before the step and no longer after it.
Appended == RetiredEntries' \ RetiredEntries
Displaced == {data[i] : i \in {x \in Slots : data[x] # NullPtr /\ data'[x] # data[x]}}

\* What C35 says of every step, but for the moment of the append: a step
\* appends at most one entry, tagged with the global epoch after the bump of
\* the put; it does so only where an eviction starts (the value of the slot
\* at the tail) and where an update ends (the handle update_slot has
\* returned), and an update never ends without it; a quiet update and an
\* insertion into a shard that is not full append nothing.
RetiresDisplaced ==
    /\ Cardinality(Appended) <= 1
    /\ \A e \in Appended :
          /\ e.epoch = global_epoch'
          /\ \E w \in Writers :
                \/ /\ wr[w].pc = "u_gen2" /\ wr'[w].pc = "idle"
                   /\ e.ptr = wr[w].old
                \/ /\ wr[w].pc \in {"lock2", "drain"} /\ wr'[w].pc = "x_gen1"
                   /\ size = Capacity
                   /\ e.ptr = data[wr'[w].idx]
    /\ \A w \in Writers :
          /\ (wr[w].pc = "u_gen2" /\ wr'[w].pc = "idle") =>
                 \E e \in Appended : e.ptr = wr[w].old
          /\ (wr[w].pc \in {"lock2", "drain"} /\ wr'[w].pc = "x_gen1") =>
                 \E e \in Appended : e.ptr = data[wr'[w].idx]

\* An entry of the retirement list holds a value that is alive.
RetiredAlive == \A e \in RetiredEntries : heap[e.ptr].rc > 0

\* C35 as stated: every displaced value is on the retirement list before the
\* slot stops referencing it.
C35_RetiredBeforeDisplaced ==
    /\ []RetiredAlive
    /\ [][/\ RetiresDisplaced
          /\ \A p \in Displaced : \E e \in RetiredEntries : e.ptr = p]_vars

\* C35, amended: an evicted value is on the retirement list before its slot
\* stops referencing it; an overwritten value is moved out of its slot into
\* the handle that update_slot returns, which the lock holder keeps until
\* commit_put appends it to the list, before the put releases the lock.
C35_RetiredByEndOfPut ==
    /\ []RetiredAlive
    /\ [](\A w \in Writers : wr[w].old # NullPtr =>
             /\ spin_lock /\ wr[w].pc \in {"u_in", "u_gen2"}
             /\ heap[wr[w].old].rc > 0)
    /\ [][/\ RetiresDisplaced
          /\ \A p \in Displaced :
                \/ \E e \in RetiredEntries : e.ptr = p
                \/ \E w \in Writers : wr[w].pc = "u_out" /\ wr'[w].old = p]_vars

\* C35, its case: update_slot has moved the old handle out of the slot and
\* commit_put has not yet appended it to the retirement list.
C35_OldHandleInHand ==
    \E w \in Writers :
        /\ wr[w].pc = "u_gen2"
        /\ wr[w].old # NullPtr
        /\ \A e \in RetiredEntries : e.ptr # wr[w].old
        /\ retired # <<>>

\* C36: the epoch slot of the reader's thread is 0 while the thread is not
\* in get and until enter_epoch has stored its stamp, so after every return
\* of get, hit or miss; from that store to leave_epoch it is not 0 and not
\* above the global epoch.  The global epoch starts at 1, is never 0 and
\* never decreases.
C36_EpochSlotDiscipline ==
    /\ global_epoch = 1
    /\ [](global_epoch >= 1)
    /\ [](rd.pc \in {"idle", "enter"} => active_epoch[ReaderTid] = 0)
    /\ [](rd.pc \notin {"idle", "enter"} =>
             /\ active_epoch[ReaderTid] # 0
             /\ active_epoch[ReaderTid] <= global_epoch)
    /\ [][global_epoch' >= global_epoch]_vars

\* C36, its case: the reader is inside a get that will miss, with a stamp
\* that is older than the global epoch.
C36_StampBehind ==
    /\ rd.pc = "leave"
    /\ rd.ptr = NullPtr
    /\ active_epoch[ReaderTid] # 0
    /\ active_epoch[ReaderTid] < global_epoch

\* The traces that wait in ring R from position h on, oldest first.
RECURSIVE PendingFrom(_, _)
PendingFrom(R, h) ==
    IF h = R.tail THEN <<>> ELSE <<R.buffer[h]>> \o PendingFrom(R, increment(R, h))

\* The traces of ring t that are valid now: a drain changes no gen and no
\* state, so they are the traces that the next drain applies.
ValidPending(t) == SelectSeq(PendingFrom(rings[t], rings[t].head), StillValid)

\* The rings with a set bit that hold a valid trace, and the last trace
\* that a drain starting now applies (for_each_bit goes from the lowest bit
\* to the highest).
HintedRings == {t \in dirty_mask : ValidPending(t) # <<>>}
LastValidTrace ==
    LET b == CHOOSE x \in HintedRings : \A y \in HintedRings : y <= x
    IN ValidPending(b)[Len(ValidPending(b))]

\* C37: in a slow-path put (the step that bumps the epoch) that drains a
\* valid trace, the slot of the last valid trace is the head of the list
\* when commit_put starts, and with Capacity >= 2 the key of that slot is
\* not the key that the put evicts: the shard holds it after the put.
C37_DrainedHintSurvives ==
    [][(global_epoch' # global_epoch /\ HintedRings # {}) =>
          /\ apply_updates(bump_epoch(St)).head = LastValidTrace.idx
          /\ Capacity >= 2 =>
                 meta[LastValidTrace.idx].key \in KeysHeld(St')]_vars

\* The value StrictLRU::get(k) returns (0: the empty optional).
StrictValue(k) == strict_get(strict, k).v

\* C38: when one thread gives the same operations to the shard and to a
\* StrictLRU of the same capacity, every put writing a value that differs
\* from the key's value and no trace being dropped, then after every
\* operation both hold the same keys and a get of any key returns the same
\* from both.
C38_RefinesStrictLRU ==
    /\ KeysHeld(St) = {strict[i].k : i \in 1 .. Len(strict)}
    /\ \A k \in Keys : GetValue(k) = StrictValue(k)

\* The capacity of the ring of thread t and the number of traces in it.
RingSize(t) == Cardinality(DOMAIN rings[t].buffer)
PendingCount(t) == (rings[t].tail - rings[t].head + RingSize(t)) % RingSize(t)

\* C39: a trace ring of capacity C holds at most C - 1 traces, and push
\* fails exactly when it holds C - 1; the ring of a shard has the capacity
\* Capacity / (4 * MaxThreads), and when that is 1 every push fails: the
\* ring stays empty, no bit of the dirty mask is ever set, and a get leaves
\* the shard as it has found it.
C39_UsableCapacity ==
    \A t \in Tids :
        /\ PendingCount(t) <= RingSize(t) - 1
        /\ push(rings[t], [idx |-> 0, gen |-> 0]).ok
              <=> PendingCount(t) < RingSize(t) - 1
        /\ RingSize(t) = 1 =>
              /\ PendingCount(t) = 0
              /\ dirty_mask = {}
              /\ \A k \in Keys : get(St, t, k).st = St

\* C39, its case: a shard whose ring has capacity 1 is full and has evicted
\* a key.
C39_RingOfOne ==
    /\ RingSize(ReaderTid) = 1
    /\ size = Capacity
    /\ \E k \in Keys : shadow[k].was_evicted
    /\ ~spin_lock

\* C40: on an MPSC_TraceBuffer with concurrent producers and a consumer,
\* every value pop returns is the value of the push that has claimed the
\* cell, no value is returned twice, and when the ring is empty and no
\* thread is inside push or pop, every push that has returned true has been
\* delivered.
C40_MpscDelivery ==
    /\ \A i \in DOMAIN mpsc.popped :
          /\ mpsc.popped[i].value = mpsc.popped[i].claimed
          /\ \A j \in DOMAIN mpsc.popped :
                i # j => mpsc.popped[i].value # mpsc.popped[j].value
    /\ (/\ mpsc.head = mpsc.tail
        /\ mpsc.cons.pc = "idle"
        /\ \A p \in 1 .. NumProducers : mpsc.prod[p].pc = "idle")
       => mpsc.pushed = {mpsc.popped[i].value : i \in DOMAIN mpsc.popped}
====
